---- MODULE Spec2Model ----
(***************************************************************************)
(* Model of the discovery / catalog / proxy-routing core of the Tools      *)
(* Bridger extension: McpServerDiscovery (the server registry),            *)
(* DynamicToolRegistry (connections and tool catalog), McpClient (the      *)
(* transport client) and ProxyToolHandlers (the router).                   *)
(*                                                                         *)
(* The program is single-threaded JavaScript: code runs to completion      *)
(* between awaits.  Every action below is one such run: a handler, or what *)
(* follows the answer of the transport the code was waiting for, up to the *)
(* next call of the transport that it awaits (connect, listTools,          *)
(* callTool, close).  An await of a promise that is already settled (an    *)
(* async function that returned or threw without waiting) only defers to   *)
(* the microtask queue, which empties before the next answer is handled.   *)
(***************************************************************************)
EXTENDS Integers, Sequences, FiniteSets, TLC

(***************************************************************************)
(* Bounds of the model.                                                    *)
(***************************************************************************)
\* registry changes (addServer / removeServer) after construction; each
\* starts one discovery pass
MaxChanges == 1

\* the refreshToolDiscovery calls that can be in flight together
PassIds == {1, 2}

\* the handleProxyTool calls that can wait on a transport together
ReqIds == {1}

\* identities for the McpClient objects referenced at one time: one per entry
\* of serverClients, one per pass and one per waiting call
ClientIds == 1 .. (2 * Cardinality(PassIds) + Cardinality(ReqIds))

(***************************************************************************)
(* Tool names.  A name is a sequence of tokens; String.includes(pattern)   *)
(* is modelled on tokens: a name includes a pattern when one of its        *)
(* lower-cased tokens is the pattern.                                      *)
(***************************************************************************)
NameListSchemas == <<"list", "schemas">>
NameRunQuery == <<"run", "query">>
NameAbsent == <<"drop", "table">>
NameEmpty == <<>>

\* what the remote server answers to tools/list
RemoteTools == <<NameListSchemas, NameRunQuery>>

toLowerCase(tok) ==
    CASE tok = "LIST" -> "list"
      [] tok = "RUN" -> "run"
      [] tok = "GET" -> "get"
      [] OTHER -> tok

includes(name, pattern) ==
    \E i \in 1 .. Len(name) : toLowerCase(name[i]) = pattern

(***************************************************************************)
(* Server descriptors (McpServerConfig).  "" stands for an absent field.   *)
(***************************************************************************)
PidShort == "toolsAgent"
PidFull == "adaptive-tools-participant.toolsAgent"

\* as the "Add MCP Server" command builds it
D1 ==
    [id |-> "s1", transport |-> "stdio", command |-> "cmdA", url |-> "",
     categories |-> <<>>, participantId |-> PidFull]

\* as a workspace setting gives it: no participantId, with category hints
D2 ==
    [id |-> "s2", transport |-> "sse", command |-> "", url |-> "urlB",
     categories |-> <<"database", "postgresql">>, participantId |-> ""]

\* as a settings entry may give it: stdio without a command, and neither
\* participantId nor category hints; it has the id of D1
D1Bare ==
    [id |-> "s1", transport |-> "stdio", command |-> "", url |-> "",
     categories |-> <<>>, participantId |-> ""]

Descriptors == {D1, D2, D1Bare}
ServerIds == {d.id : d \in Descriptors}

\* the descriptor lists loadServersFromConfig leaves at construction
InitServerLists == {<<D1>>, <<D1, D2>>}

(***************************************************************************)
(* The 'toolsBridger' settings McpClient.connect reads.                    *)
(***************************************************************************)
CfgStdioA == [serverType |-> "stdio", serverCommand |-> "cmdA", serverUrl |-> ""]
\* the defaults: serverType 'stdio', serverCommand ''
CfgDefault == [serverType |-> "stdio", serverCommand |-> "", serverUrl |-> ""]

Settings == {CfgStdioA, CfgDefault}

VARIABLES
    servers,          \* McpServerDiscovery.servers
    globalState,      \* context.globalState 'mcpServers'
    settings,         \* workspace configuration 'toolsBridger'
    changes,          \* registry changes so far
    heap,             \* the McpClient objects that are still referenced
    serverClients,    \* DynamicToolRegistry.serverClients (insertion order)
    discoveredTools,  \* DynamicToolRegistry.discoveredTools (insertion order)
    passes,           \* the refreshToolDiscovery calls: position and locals
    requests,         \* the handleProxyTool calls waiting in client.json
    outcome,          \* what the run of handleProxyTool just taken came to
    probe             \* a pure function's call: its arguments and what it returned

vars ==
    <<servers, globalState, settings, changes, heap, serverClients,
      discoveredTools, passes, requests, outcome, probe>>

\* the state of the running program
programVars ==
    <<servers, globalState, settings, changes, heap, serverClients,
      discoveredTools, passes, requests, outcome>>

registryVars == <<servers, globalState, settings, changes>>
routeVars == <<requests, outcome>>

(***************************************************************************)
(* McpClient                                                               *)
(***************************************************************************)
NoEndpoint == [kind |-> "", target |-> ""]

\* an identity no object has
Unused ==
    [client |-> FALSE, transport |-> "unused", connected |-> FALSE,
     bound |-> NoEndpoint]

\* fields of `new McpClient()`; bound is the endpoint connect() opened
NewClient ==
    [client |-> FALSE, transport |-> "null", connected |-> FALSE,
     bound |-> NoEndpoint]

\* the endpoint a descriptor names
EndpointOf(d) ==
    [kind |-> d.transport,
     target |-> IF d.transport = "stdio" THEN d.command ELSE d.url]

\* connect() up to its await: reads the settings, creates transport and client
connectCall(c, cfg) ==
    IF c.connected THEN c
    ELSE IF cfg.serverType = "stdio" /\ cfg.serverCommand # ""
    THEN [c EXCEPT !.client = TRUE, !.transport = "starting",
                   !.bound = [kind |-> "stdio", target |-> cfg.serverCommand]]
    ELSE IF cfg.serverType \in {"sse", "streamable"} /\ cfg.serverUrl # ""
    THEN [c EXCEPT !.client = TRUE, !.transport = "starting",
                   !.bound = [kind |-> cfg.serverType, target |-> cfg.serverUrl]]
    ELSE c

\* connect() after client.connect(transport) resolved
connectResolved(c) == [c EXCEPT !.transport = "live", !.connected = TRUE]

\* transport: null (this.transport is null) | starting | live | lost (it
\* closed by itself: process exit, pipe error, connection loss) | closed
\* close() on a transport that was started
closed(t) == IF t \in {"starting", "live", "lost"} THEN "closed" ELSE t

\* disconnect() up to its first await of a close(), or to its end (pc "")
disconnectCall(c) ==
    IF c.client
    THEN [c |-> [c EXCEPT !.transport = closed(@)], pc |-> "dClient"]
    ELSE IF c.transport # "null"
    THEN [c |-> [c EXCEPT !.transport = closed(@)], pc |-> "dTransport"]
    ELSE [c |-> [c EXCEPT !.connected = FALSE], pc |-> ""]

\* disconnect() after client.close() resolved
disconnectAfterClient(c) ==
    LET c1 == [c EXCEPT !.client = FALSE]
    IN  IF c1.transport # "null"
        THEN [c |-> [c1 EXCEPT !.transport = closed(@)], pc |-> "dTransport"]
        ELSE [c |-> [c1 EXCEPT !.connected = FALSE], pc |-> ""]

\* disconnect() after transport.close() resolved
disconnectAfterTransport(c) ==
    [c EXCEPT !.transport = "null", !.connected = FALSE]

isConnected(c) == c.connected

(***************************************************************************)
(* DynamicToolRegistry: the two Maps                                       *)
(***************************************************************************)
\* Map.set on serverClients: in place for a present key, else appended
setClient(sc, sid, cid) ==
    IF \E i \in 1 .. Len(sc) : sc[i].sid = sid
    THEN [i \in 1 .. Len(sc) |->
            IF sc[i].sid = sid THEN [sid |-> sid, cid |-> cid] ELSE sc[i]]
    ELSE Append(sc, [sid |-> sid, cid |-> cid])

\* serverClients.get: the client's identity, 0 for undefined
getClient(sc, sid) ==
    IF \E i \in 1 .. Len(sc) : sc[i].sid = sid
    THEN sc[CHOOSE i \in 1 .. Len(sc) : sc[i].sid = sid].cid
    ELSE 0

\* the key `${serverId}:${name}` of discoveredTools
toolKey(serverId, name) == <<serverId, name>>

\* Map.set on discoveredTools under the tool's key
setTool(dt, t) ==
    IF \E i \in 1 .. Len(dt) : toolKey(dt[i].serverId, dt[i].name) = toolKey(t.serverId, t.name)
    THEN [i \in 1 .. Len(dt) |->
            IF toolKey(dt[i].serverId, dt[i].name) = toolKey(t.serverId, t.name)
            THEN t ELSE dt[i]]
    ELSE Append(dt, t)

\* a categorizeTools that tries the database patterns first
categorizeTools_DatabaseFirst(toolName, serverCategories) ==
    IF Len(serverCategories) > 0 THEN serverCategories[1]
    ELSE IF includes(toolName, "run") \/ includes(toolName, "execute")
            \/ includes(toolName, "query") THEN "database"
    ELSE IF includes(toolName, "list") \/ includes(toolName, "get")
            \/ includes(toolName, "describe") THEN "query"
    ELSE IF includes(toolName, "generate") \/ includes(toolName, "create")
            \/ includes(toolName, "build") THEN "analysis"
    ELSE "general"

categorizeTools(toolName, serverCategories) ==
    IF Len(serverCategories) > 0 THEN serverCategories[1]
    ELSE IF includes(toolName, "list") \/ includes(toolName, "get")
            \/ includes(toolName, "describe") THEN "query"
    ELSE IF includes(toolName, "generate") \/ includes(toolName, "create")
            \/ includes(toolName, "build") THEN "analysis"
    ELSE IF includes(toolName, "run") \/ includes(toolName, "execute")
            \/ includes(toolName, "query") THEN "database"
    ELSE "general"

\* the DiscoveredTool built for one listed tool
discoveredTool(name, d) ==
    [name |-> name, serverId |-> d.id,
     participantId |-> IF d.participantId # "" THEN d.participantId ELSE PidShort,
     category |-> categorizeTools(name, d.categories)]

RECURSIVE registerTools(_, _, _)
\* the registration loop of discoverToolsFromServer
registerTools(dt, tools, d) ==
    IF tools = <<>> THEN dt
    ELSE registerTools(setTool(dt, discoveredTool(Head(tools), d)), Tail(tools), d)

(***************************************************************************)
(* DynamicToolRegistry: catalog reads                                      *)
(***************************************************************************)
getAllTools(dt) == dt

\* the first tool of that name (and participant, when one is given); 0 for
\* undefined
getToolByName(dt, toolName, participantId) ==
    LET hits == {i \in 1 .. Len(dt) :
                    /\ dt[i].name = toolName
                    /\ (participantId = "" \/ dt[i].participantId = participantId)}
    IN  IF hits = {} THEN 0 ELSE CHOOSE i \in hits : \A j \in hits : i <= j

getToolsByCategory(dt, category) == SelectSeq(dt, LAMBDA t : t.category = category)

(***************************************************************************)
(* McpClient.json and ProxyToolHandlers                                    *)
(***************************************************************************)
Categories == {"database", "query", "analysis", "general"}

\* ProxyToolInput; present is FALSE for a call without an input object
NoInput == [present |-> FALSE, toolName |-> NameEmpty, participantId |-> ""]
Input(name, pid) == [present |-> TRUE, toolName |-> name, participantId |-> pid]

\* the calls of the four proxy tools that are tried
Calls ==
    {[input |-> NoInput, category |-> "query"],
     [input |-> Input(NameEmpty, PidShort), category |-> "query"],
     [input |-> Input(NameListSchemas, ""), category |-> "query"],
     [input |-> Input(NameListSchemas, PidFull), category |-> "query"],
     [input |-> Input(NameRunQuery, PidShort), category |-> "database"],
     [input |-> Input(NameAbsent, PidFull), category |-> "query"],
     [input |-> Input(NameAbsent, ""), category |-> "query"],
     [input |-> Input(NameAbsent, PidShort), category |-> "general"]}

\* content items of a CallToolResult
TextA == [type |-> "text", text |-> "a"]
TextB == [type |-> "text", text |-> "b"]
ImageC == [type |-> "image", text |-> ""]

\* the results a tools/call is answered with (their content arrays)
CallResults == {<<TextA>>, <<TextA, TextB>>, <<ImageC>>}

\* what json() returns for a result: the text of its first content item when
\* that is a text item, else the result itself; items are the content items
\* the returned value still carries
json(content) ==
    IF Len(content) > 0 /\ content[1].type = "text"
    THEN [string |-> TRUE, items |-> <<content[1]>>]
    ELSE [string |-> FALSE, items |-> content]

\* the text part formatToolResult makes of a successful result: a string as
\* it is, anything else through JSON.stringify
formatToolResult(result) ==
    [stringified |-> ~result.string, items |-> result.items]

NoText == [stringified |-> FALSE, items |-> <<>>]

MsgRequired == "Error: toolName and participantId are required for proxy tool execution."
MsgNoServers == "No MCP servers are currently configured. Please add MCP servers using the command palette: Tools Bridger: Add MCP Server"
MsgNoCategoryTools == "No ${category} tools are currently available. Available categories: ${categories}"
MsgNotFound == "Tool ${toolName} not found. Available ${category} tools: ${names}"
MsgError == "Error executing tool ${toolName}: ${cause}"
MsgTypeError == "TypeError: Cannot read properties of undefined (reading 'toolName')"
CauseNotConnected == "Server not connected: ${serverId}"
CauseNotInitialized == "Failed to execute tool ${toolName}: Error: MCP client not initialized. Call connect() first."
CauseCallFailed == "Failed to execute tool ${toolName}: Error: MCP tool call failed for ${toolName}: ${error}"

\* What a run of handleProxyTool came to.  cls: none | thrown | failure (a
\* result whose text reports an error) | success (a formatted result) |
\* dispatched (it waits in client.json).  message is the template of the text
\* returned (or of the error thrown), the other fields what fills it in;
\* sync: the run began with the call of handleProxyTool; invoked: callTool
\* was called; payload: what callTool resolved with.
NoOutcome ==
    [cls |-> "none", sync |-> TRUE, input |-> NoInput, category |-> "",
     message |-> "", toolName |-> NameEmpty, names |-> <<>>, categories |-> <<>>,
     cause |-> "", serverId |-> "", cid |-> 0, invoked |-> FALSE,
     payload |-> <<>>, text |-> NoText]

names(tools) == [i \in 1 .. Len(tools) |-> tools[i].name]

RECURSIVE distinct(_)
\* a sequence without its repetitions (the order of a Set's insertions)
distinct(seq) ==
    IF seq = <<>> THEN <<>>
    ELSE LET init == distinct(SubSeq(seq, 1, Len(seq) - 1))
             last == seq[Len(seq)]
         IN  IF \E i \in 1 .. Len(init) : init[i] = last THEN init ELSE Append(init, last)

\* a listing that ignores the category
getAvailableToolsForCategory_AnyCategory(dt, category) ==
    getAllTools(dt)

getAvailableToolsForCategory(dt, category) ==
    SelectSeq(getAllTools(dt), LAMBDA t : t.category = category)

getAvailableCategories(dt) ==
    distinct([i \in 1 .. Len(dt) |-> dt[i].category])

\* an executeProxyTool that asks only whether the Map holds a client
executeProxyTool_NoConnectedCheck(o, tool, sc, h) ==
    LET cid == getClient(sc, tool.serverId)
    IN  IF cid = 0
        THEN [o EXCEPT !.cls = "failure", !.message = MsgError,
                       !.cause = CauseNotConnected, !.serverId = tool.serverId]
        ELSE IF ~h[cid].client
        THEN [o EXCEPT !.cls = "failure", !.message = MsgError,
                       !.cause = CauseNotInitialized, !.serverId = tool.serverId]
        ELSE [o EXCEPT !.cls = "dispatched", !.serverId = tool.serverId,
                       !.cid = cid, !.invoked = TRUE]

\* an executeProxyTool that takes the first client of the Map
executeProxyTool_FirstClient(o, tool, sc, h) ==
    LET cid == IF sc = <<>> THEN 0 ELSE sc[1].cid
    IN  IF cid = 0 \/ ~isConnected(h[cid])
        THEN [o EXCEPT !.cls = "failure", !.message = MsgError,
                       !.cause = CauseNotConnected, !.serverId = tool.serverId]
        ELSE IF ~h[cid].client
        THEN [o EXCEPT !.cls = "failure", !.message = MsgError,
                       !.cause = CauseNotInitialized, !.serverId = tool.serverId]
        ELSE [o EXCEPT !.cls = "dispatched", !.serverId = tool.serverId,
                       !.cid = cid, !.invoked = TRUE]

\* executeProxyTool up to the await of client.json
executeProxyTool(o, tool, sc, h) ==
    LET cid == getClient(sc, tool.serverId)
    IN  IF cid = 0 \/ ~isConnected(h[cid])
        THEN [o EXCEPT !.cls = "failure", !.message = MsgError,
                       !.cause = CauseNotConnected, !.serverId = tool.serverId]
        ELSE IF ~h[cid].client
        THEN [o EXCEPT !.cls = "failure", !.message = MsgError,
                       !.cause = CauseNotInitialized, !.serverId = tool.serverId]
        ELSE [o EXCEPT !.cls = "dispatched", !.serverId = tool.serverId,
                       !.cid = cid, !.invoked = TRUE]

\* handleProxyTool up to its return or to the await of client.json
handleProxyTool(input, category, dt, sc, h) ==
    LET o == [NoOutcome EXCEPT !.input = input, !.category = category,
                               !.toolName = input.toolName]
    IN  IF ~input.present
        THEN [o EXCEPT !.cls = "thrown", !.message = MsgTypeError]
        ELSE IF input.toolName = NameEmpty \/ input.participantId = ""
        THEN [o EXCEPT !.cls = "failure", !.message = MsgRequired]
        ELSE IF Len(getAllTools(dt)) = 0
        THEN [o EXCEPT !.cls = "failure", !.message = MsgNoServers]
        ELSE LET i == getToolByName(dt, input.toolName, input.participantId)
                 availableTools == getAvailableToolsForCategory(dt, category)
             IN  IF i = 0
                 THEN IF Len(availableTools) = 0
                      THEN [o EXCEPT !.cls = "failure", !.message = MsgNoCategoryTools,
                                     !.categories = getAvailableCategories(dt)]
                      ELSE [o EXCEPT !.cls = "failure", !.message = MsgNotFound,
                                     !.names = names(availableTools)]
                 ELSE executeProxyTool(o, dt[i], sc, h)

\* a call waiting in client.json: pc idle | call
IdleRequest == [pc |-> "idle", toolName |-> NameEmpty, cid |-> 0, cancelled |-> FALSE]

\* the objects something still holds: the Map, and the passes and calls
\* waiting on one
referenced(w) ==
    {w.sc[i].cid : i \in 1 .. Len(w.sc)} \cup {w.ps[p].cid : p \in PassIds}
        \cup {w.rq[r].cid : r \in DOMAIN w.rq}

\* objects nothing holds any more leave the model
collect(w) ==
    [w EXCEPT !.h = [c \in ClientIds |-> IF c \in referenced(w) THEN w.h[c] ELSE Unused]]

(***************************************************************************)
(* DynamicToolRegistry: a discovery pass (one call of refreshToolDiscovery) *)
(*   pc: idle | dClient | dTransport | conn | list | done (it has fired) |  *)
(*   caught (a disconnect() threw: it has ended in its catch)              *)
(* and a call of dispose(), which walks serverClients the same way         *)
(*   pc: xClient | xTransport | disposed | disposeFailed (it threw)        *)
(*   it: entries of serverClients its iterator has passed; snap, si: the   *)
(*   list getServers() gave it and the server it is at; cid: the client it *)
(*   is waiting on; got: the keys of the tools it has registered; tried:   *)
(*   the ids of the servers whose client it has called connect() on        *)
(***************************************************************************)
IdlePass ==
    [pc |-> "idle", it |-> 0, snap |-> <<>>, si |-> 0, cid |-> 0, got |-> {},
     tried |-> <<>>]

Running(pass) == pass.pc \notin {"idle", "done", "caught", "disposed", "disposeFailed"}

\* it holds an iterator on serverClients
InDisconnectLoop(pass) == pass.pc \in {"dClient", "dTransport", "xClient", "xTransport"}

\* serverClients.clear(): an iterator another pass holds on the Map goes on
\* with the entries set after the clear
clearIterators(ps, p) ==
    [q \in PassIds |->
        IF q # p /\ InDisconnectLoop(ps[q]) THEN [ps[q] EXCEPT !.it = 0] ELSE ps[q]]

\* the identity `new McpClient()` gets
newId(h) ==
    CHOOSE c \in ClientIds : h[c] = Unused /\ \A b \in ClientIds : b < c => h[b] # Unused

RECURSIVE serverLoop(_, _, _)
\* the server loop of refreshToolDiscovery from its loop test, to the await
\* of client.connect(transport) in discoverToolsFromServer or to the fire.
\* A connect() that throws before it waits is caught and the loop goes on.
serverLoop(w, p, cfg) ==
    LET pass == w.ps[p]
    IN  IF pass.si < Len(pass.snap)
        THEN LET d == pass.snap[pass.si + 1]
                 cid == newId(w.h)
                 c == connectCall(NewClient, cfg)
                 w1 == [w EXCEPT !.h[cid] = c,
                                 !.sc = setClient(w.sc, d.id, cid),
                                 !.ps[p].si = @ + 1,
                                 !.ps[p].tried = Append(@, d.id)]
             IN  IF c.transport = "starting"
                 THEN [w1 EXCEPT !.ps[p].cid = cid, !.ps[p].pc = "conn"]
                 ELSE serverLoop(collect(w1), p, cfg)
        ELSE [w EXCEPT !.ps[p].pc = "done", !.ps[p].cid = 0]

RECURSIVE disconnectLoop(_, _, _, _)
\* the disconnect loop of refreshToolDiscovery from its loop test, to the
\* await of a close() in disconnect(), or through the clear into the server
\* loop
disconnectLoop(w, p, srv, cfg) ==
    LET pass == w.ps[p]
    IN  IF pass.it < Len(w.sc)
        THEN LET cid == w.sc[pass.it + 1].cid
                 r == disconnectCall(w.h[cid])
                 w1 == [w EXCEPT !.h[cid] = r.c, !.ps[p].it = @ + 1]
             IN  IF r.pc = ""
                 THEN disconnectLoop(w1, p, srv, cfg)
                 ELSE [w1 EXCEPT !.ps[p].pc = r.pc, !.ps[p].cid = cid]
        ELSE serverLoop(
                collect([w EXCEPT !.sc = <<>>,
                          !.ps = [clearIterators(w.ps, p) EXCEPT
                                    ![p].snap = srv, ![p].si = 0, ![p].it = 0,
                                    ![p].cid = 0]]),
                p, cfg)

\* refreshToolDiscovery from its call to its first await of the transport
refreshToolDiscovery(w, p, srv, cfg) ==
    disconnectLoop([w EXCEPT !.ps[p] = [IdlePass EXCEPT !.pc = "dClient"]], p, srv, cfg)

\* no run of handleProxyTool is being taken: code runs to completion, and
\* its outcome is taken before anything else runs
Quiet == outcome = NoOutcome

World == [h |-> heap, sc |-> serverClients, ps |-> passes, rq |-> requests]

Install(w) ==
    /\ heap' = collect(w).h
    /\ serverClients' = w.sc
    /\ passes' = w.ps

(***************************************************************************)
(* RequestAnalyzer.  A string is the sequence of its characters, so that   *)
(* String.includes is the test for a contiguous subsequence.               *)
(***************************************************************************)
\* String.includes: t occurs in s (the empty string occurs in every string)
strIncludes(s, t) ==
    \E k \in 0 .. (Len(s) - Len(t)) : SubSeq(s, k + 1, k + Len(t)) = t

\* String.toLowerCase on the characters that occur in the prompts
lowerChar(c) ==
    CASE c = "S" -> "s"
      [] c = "Q" -> "q"
      [] c = "L" -> "l"
      [] OTHER -> c

strToLowerCase(s) == [i \in 1 .. Len(s) |-> lowerChar(s[i])]

Keywords_database ==
    << <<"d", "a", "t", "a", "b", "a", "s", "e">>, <<"d", "b">>,
       <<"s", "q", "l">>, <<"q", "u", "e", "r", "y">>,
       <<"t", "a", "b", "l", "e">>, <<"s", "c", "h", "e", "m", "a">>,
       <<"p", "o", "s", "t", "g", "r", "e", "s">>,
       <<"m", "y", "s", "q", "l">>, <<"s", "q", "l", "i", "t", "e">>,
       <<"s", "e", "l", "e", "c", "t">>, <<"i", "n", "s", "e", "r", "t">>,
       <<"u", "p", "d", "a", "t", "e">>, <<"d", "e", "l", "e", "t", "e">>,
       <<"j", "o", "i", "n">>, <<"i", "n", "d", "e", "x">>,
       <<"c", "o", "l", "u", "m", "n">>, <<"r", "o", "w">>, <<"e", "r", "d">>,
       <<"d", "i", "a", "g", "r", "a", "m">>,
       <<"m", "i", "g", "r", "a", "t", "i", "o", "n">>, <<"o", "r", "m">> >>

Keywords_git ==
    << <<"g", "i", "t">>, <<"g", "i", "t", "h", "u", "b">>,
       <<"g", "i", "t", "l", "a", "b">>, <<"r", "e", "p", "o">>,
       <<"r", "e", "p", "o", "s", "i", "t", "o", "r", "y">>,
       <<"c", "o", "m", "m", "i", "t">>, <<"p", "u", "s", "h">>,
       <<"p", "u", "l", "l">>, <<"m", "e", "r", "g", "e">>,
       <<"b", "r", "a", "n", "c", "h">>,
       <<"c", "h", "e", "c", "k", "o", "u", "t">>,
       <<"c", "l", "o", "n", "e">>, <<"f", "o", "r", "k">>, <<"p", "r">>,
       <<"p", "u", "l", "l", " ", "r", "e", "q", "u", "e", "s", "t">>,
       <<"i", "s", "s", "u", "e">>, <<"d", "i", "f", "f">>, <<"l", "o", "g">>,
       <<"s", "t", "a", "t", "u", "s">>, <<"a", "d", "d">>,
       <<"s", "t", "a", "s", "h">>, <<"r", "e", "b", "a", "s", "e">>,
       <<"c", "h", "e", "r", "r", "y", "-", "p", "i", "c", "k">> >>

Keywords_file_system ==
    << <<"f", "i", "l", "e">>, <<"f", "o", "l", "d", "e", "r">>,
       <<"d", "i", "r", "e", "c", "t", "o", "r", "y">>,
       <<"p", "a", "t", "h">>, <<"r", "e", "a", "d">>,
       <<"w", "r", "i", "t", "e">>, <<"c", "o", "p", "y">>,
       <<"m", "o", "v", "e">>, <<"d", "e", "l", "e", "t", "e">>,
       <<"s", "e", "a", "r", "c", "h">>, <<"f", "i", "n", "d">>, <<"l", "s">>,
       <<"c", "a", "t">>, <<"m", "k", "d", "i", "r">>,
       <<"r", "m", "d", "i", "r">>, <<"c", "h", "m", "o", "d">>,
       <<"c", "h", "o", "w", "n">>, <<"s", "t", "a", "t">>,
       <<"s", "i", "z", "e">>, <<"e", "x", "i", "s", "t", "s">>,
       <<"p", "e", "r", "m", "i", "s", "s", "i", "o", "n", "s">> >>

Keywords_web ==
    << <<"h", "t", "t", "p">>, <<"h", "t", "t", "p", "s">>, <<"u", "r", "l">>,
       <<"a", "p", "i">>, <<"r", "e", "s", "t">>,
       <<"g", "r", "a", "p", "h", "q", "l">>, <<"f", "e", "t", "c", "h">>,
       <<"r", "e", "q", "u", "e", "s", "t">>,
       <<"r", "e", "s", "p", "o", "n", "s", "e">>, <<"j", "s", "o", "n">>,
       <<"x", "m", "l">>, <<"h", "t", "m", "l">>, <<"c", "s", "s">>,
       <<"j", "a", "v", "a", "s", "c", "r", "i", "p", "t">>,
       <<"c", "u", "r", "l">>, <<"w", "g", "e", "t">>,
       <<"b", "r", "o", "w", "s", "e", "r">>, <<"w", "e", "b">>,
       <<"i", "n", "t", "e", "r", "n", "e", "t">>,
       <<"s", "c", "r", "a", "p", "e">> >>

Keywords_development ==
    << <<"c", "o", "d", "e">>,
       <<"p", "r", "o", "g", "r", "a", "m", "m", "i", "n", "g">>,
       <<"f", "u", "n", "c", "t", "i", "o", "n">>,
       <<"c", "l", "a", "s", "s">>, <<"m", "e", "t", "h", "o", "d">>,
       <<"v", "a", "r", "i", "a", "b", "l", "e">>,
       <<"d", "e", "b", "u", "g">>, <<"t", "e", "s", "t">>,
       <<"b", "u", "i", "l", "d">>, <<"c", "o", "m", "p", "i", "l", "e">>,
       <<"d", "e", "p", "l", "o", "y">>, <<"c", "i">>, <<"c", "d">>,
       <<"p", "i", "p", "e", "l", "i", "n", "e">>, <<"l", "i", "n", "t">>,
       <<"f", "o", "r", "m", "a", "t">>,
       <<"r", "e", "f", "a", "c", "t", "o", "r">>,
       <<"r", "e", "v", "i", "e", "w">> >>

Keywords_analysis ==
    << <<"a", "n", "a", "l", "y", "z", "e">>,
       <<"a", "n", "a", "l", "y", "s", "i", "s">>, <<"d", "a", "t", "a">>,
       <<"s", "t", "a", "t", "i", "s", "t", "i", "c", "s">>,
       <<"r", "e", "p", "o", "r", "t">>, <<"c", "h", "a", "r", "t">>,
       <<"g", "r", "a", "p", "h">>,
       <<"v", "i", "s", "u", "a", "l", "i", "z", "a", "t", "i", "o", "n">>,
       <<"t", "r", "e", "n", "d">>, <<"p", "a", "t", "t", "e", "r", "n">>,
       <<"i", "n", "s", "i", "g", "h", "t">>,
       <<"m", "e", "t", "r", "i", "c">>, <<"k", "p", "i">>,
       <<"d", "a", "s", "h", "b", "o", "a", "r", "d">>,
       <<"s", "u", "m", "m", "a", "r", "y">>,
       <<"a", "g", "g", "r", "e", "g", "a", "t", "e">>,
       <<"c", "a", "l", "c", "u", "l", "a", "t", "e">>,
       <<"c", "o", "u", "n", "t">>, <<"a", "v", "e", "r", "a", "g", "e">>,
       <<"s", "u", "m">> >>

Keywords_system ==
    << <<"s", "y", "s", "t", "e", "m">>,
       <<"p", "r", "o", "c", "e", "s", "s">>,
       <<"s", "e", "r", "v", "i", "c", "e">>,
       <<"d", "a", "e", "m", "o", "n">>, <<"c", "p", "u">>,
       <<"m", "e", "m", "o", "r", "y">>, <<"d", "i", "s", "k">>,
       <<"n", "e", "t", "w", "o", "r", "k">>,
       <<"p", "e", "r", "f", "o", "r", "m", "a", "n", "c", "e">>,
       <<"m", "o", "n", "i", "t", "o", "r">>, <<"l", "o", "g">>,
       <<"e", "v", "e", "n", "t">>, <<"a", "l", "e", "r", "t">>,
       <<"h", "e", "a", "l", "t", "h">>, <<"s", "t", "a", "t", "u", "s">>,
       <<"u", "p", "t", "i", "m", "e">>, <<"l", "o", "a", "d">>,
       <<"r", "e", "s", "o", "u", "r", "c", "e">> >>

Keywords_security ==
    << <<"s", "e", "c", "u", "r", "i", "t", "y">>, <<"a", "u", "t", "h">>,
       <<"a", "u", "t", "h", "e", "n", "t", "i", "c", "a", "t", "i", "o", "n">>,
       <<"a", "u", "t", "h", "o", "r", "i", "z", "a", "t", "i", "o", "n">>,
       <<"t", "o", "k", "e", "n">>, <<"j", "w", "t">>,
       <<"o", "a", "u", "t", "h">>,
       <<"p", "a", "s", "s", "w", "o", "r", "d">>,
       <<"e", "n", "c", "r", "y", "p", "t">>,
       <<"d", "e", "c", "r", "y", "p", "t">>, <<"h", "a", "s", "h">>,
       <<"s", "s", "l">>, <<"t", "l", "s">>,
       <<"c", "e", "r", "t", "i", "f", "i", "c", "a", "t", "e">>,
       <<"k", "e", "y">>,
       <<"v", "u", "l", "n", "e", "r", "a", "b", "i", "l", "i", "t", "y">>,
       <<"s", "c", "a", "n">>, <<"f", "i", "r", "e", "w", "a", "l", "l">>,
       <<"p", "e", "r", "m", "i", "s", "s", "i", "o", "n">> >>

Keywords_communication ==
    << <<"e", "m", "a", "i", "l">>, <<"m", "a", "i", "l">>,
       <<"m", "e", "s", "s", "a", "g", "e">>, <<"c", "h", "a", "t">>,
       <<"s", "l", "a", "c", "k">>, <<"t", "e", "a", "m", "s">>,
       <<"n", "o", "t", "i", "f", "i", "c", "a", "t", "i", "o", "n">>,
       <<"a", "l", "e", "r", "t">>, <<"w", "e", "b", "h", "o", "o", "k">>,
       <<"s", "m", "s">>, <<"p", "h", "o", "n", "e">>, <<"c", "a", "l", "l">>,
       <<"m", "e", "e", "t", "i", "n", "g">>,
       <<"c", "a", "l", "e", "n", "d", "a", "r">>,
       <<"s", "c", "h", "e", "d", "u", "l", "e">>,
       <<"r", "e", "m", "i", "n", "d", "e", "r">>,
       <<"b", "r", "o", "a", "d", "c", "a", "s", "t">> >>

\* the Map domainPatterns, in its insertion order
domainPatterns ==
    << [domain |-> "database", keywords |-> Keywords_database],
       [domain |-> "git", keywords |-> Keywords_git],
       [domain |-> "file-system", keywords |-> Keywords_file_system],
       [domain |-> "web", keywords |-> Keywords_web],
       [domain |-> "development", keywords |-> Keywords_development],
       [domain |-> "analysis", keywords |-> Keywords_analysis],
       [domain |-> "system", keywords |-> Keywords_system],
       [domain |-> "security", keywords |-> Keywords_security],
       [domain |-> "communication", keywords |-> Keywords_communication] >>

\* the words the prompts are made of
WordSql == <<"s", "q", "l">>
WordSqlUpper == <<"S", "Q", "L">>
WordGit == <<"g", "i", "t">>
WordLog == <<"l", "o", "g">>
WordDelete == <<"d", "e", "l", "e", "t", "e">>
WordXyz == <<"x", "y", "z">>
WordA == <<"a">>
Vocabulary == {WordSql, WordSqlUpper, WordGit, WordLog, WordDelete, WordXyz, WordA}

\* words in a prompt at most
MaxWords == 2

\* A prompt: its words, each two separated by white space, after white
\* space (lead) and before white space (trail).  The empty string has no
\* word and no white space.
Prompt(lead, words, trail) == [lead |-> lead, words |-> words, trail |-> trail]
EmptyPrompt == Prompt(FALSE, <<>>, FALSE)

Prompts ==
    {Prompt(lead, <<>>, FALSE) : lead \in BOOLEAN}
        \cup {Prompt(lead, words, trail) :
                lead \in BOOLEAN, trail \in BOOLEAN,
                words \in UNION {[1 .. n -> Vocabulary] : n \in 1 .. MaxWords}}

\* prompt.toLowerCase().split(/\s+/): white space at an end of the string
\* leaves an empty word there, and the empty string splits into one empty
\* word
split(prompt) ==
    LET lower == [i \in 1 .. Len(prompt.words) |-> strToLowerCase(prompt.words[i])]
    IN  IF prompt.words = <<>>
        THEN IF prompt.lead THEN << <<>>, <<>> >> ELSE << <<>> >>
        ELSE (IF prompt.lead THEN << <<>> >> ELSE <<>>) \o lower
                \o (IF prompt.trail THEN << <<>> >> ELSE <<>>)

\* the score of one domain: for each keyword, the words that include it or
\* that it includes
domainScore(keywords, words) ==
    Cardinality({m \in (1 .. Len(keywords)) \X (1 .. Len(words)) :
                    \/ strIncludes(words[m[2]], keywords[m[1]])
                    \/ strIncludes(keywords[m[1]], words[m[2]])})

RECURSIVE domainScores(_, _)
\* the Map domainScores: the domains that scored, in the order of
\* domainPatterns; n is the number of domains looked at
domainScores(words, n) ==
    IF n = 0 THEN <<>>
    ELSE LET score == domainScore(domainPatterns[n].keywords, words)
             before == domainScores(words, n - 1)
         IN  IF score > 0
             THEN Append(before, [domain |-> domainPatterns[n].domain, score |-> score])
             ELSE before

\* a sort that leaves the entries as they are
sortByScore_Unsorted(entries) ==
    entries

RECURSIVE sortByScore(_)
\* Array.sort((a, b) => b[1] - a[1]): by falling score, entries of equal
\* score in the order they had (the sort is stable)
sortByScore(entries) ==
    IF entries = <<>> THEN <<>>
    ELSE LET init == sortByScore(SubSeq(entries, 1, Len(entries) - 1))
             last == entries[Len(entries)]
             ahead == {i \in 1 .. Len(init) : init[i].score >= last.score}
             k == Cardinality(ahead)
         IN  SubSeq(init, 1, k) \o <<last>> \o SubSeq(init, k + 1, Len(init))

\* Array.slice(from, to)
slice(seq, from, to) ==
    IF from >= Len(seq) THEN <<>>
    ELSE SubSeq(seq, from + 1, IF to < Len(seq) THEN to ELSE Len(seq))

min(a, b) == IF a < b THEN a ELSE b

NoAnalysis == [primaryDomain |-> "", secondaryDomains |-> <<>>, confidence |-> 0]

\* analyzeRequest; confidence is counted in tenths (topScore * 0.2 is two
\* tenths a point, 1.0 is ten)
analyzeRequest(prompt) ==
    LET words == split(prompt)
        scores == domainScores(words, Len(domainPatterns))
        sorted == sortByScore(scores)
        sortedDomains == [i \in 1 .. Len(sorted) |-> sorted[i].domain]
        primaryDomain == IF sortedDomains # <<>> THEN sortedDomains[1] ELSE "general"
        hits == {i \in 1 .. Len(scores) : scores[i].domain = primaryDomain}
        topScore == IF hits = {} THEN 0 ELSE scores[CHOOSE i \in hits : TRUE].score
    IN  [primaryDomain |-> primaryDomain,
         secondaryDomains |-> slice(sortedDomains, 1, 3),
         confidence |-> min(topScore * 2, 10)]

(***************************************************************************)
(* A call of one of the pure functions: fn names it, the fields after done *)
(* up to fails are its arguments, category, analysis and loaded what it    *)
(* returned (or left in this.servers).                                     *)
(***************************************************************************)
\* transports one McpClient creates at most
MaxTransports == 3

\* the callers of connect() and disconnect() on one McpClient
CallerIds == {1, 2}

\* a caller: idle, or waiting in connect() (pc conn) or in disconnect() (pc
\* dClient, dTransport) on the transport k
IdleCaller == [pc |-> "idle", k |-> 0]

\* one McpClient whose transports have identities: transports[k] is the
\* state of the k-th transport made (starting | live | closed), each owned
\* by the SDK client made with it; transport and client are the fields
\* this.transport and this.client (0 for null)
NoMcp ==
    [transports |-> <<>>, transport |-> 0, client |-> 0, connected |-> FALSE,
     callers |-> [c \in CallerIds |-> IdleCaller]]

\* the handler of the chat participant at its tool-calling loop:
\* request is request.toolReferences, toolReferences the copy runWithTools
\* shifts, options what sendRequest is called with and rounds the options
\* of every sendRequest so far; messages holds what the loop pushed;
\* toolCalls, toolResults and i are the locals of the round (i: the call
\* being invoked), thrown which of its invocations threw
\*   pc: idle | send | invoke | end | failed (sendRequest threw)
NoOptions == [toolMode |-> "", tools |-> <<>>]

NoChat ==
    [request |-> <<>>, toolReferences |-> <<>>, options |-> NoOptions,
     rounds |-> <<>>, messages |-> <<>>, toolCalls |-> <<>>,
     toolResults |-> <<>>, thrown |-> <<>>, i |-> 0, pc |-> "idle"]

\* mcp and chat are <<>> where no McpClient or chat handler is looked at
NoProbe ==
    [fn |-> "none", mcp |-> <<>>, chat |-> <<>>, done |-> FALSE,
     toolName |-> NameEmpty,
     serverCategories |-> <<>>, prompt |-> EmptyPrompt,
     configuredServers |-> <<>>, globalServers |-> <<>>, fails |-> FALSE,
     category |-> "", analysis |-> NoAnalysis, loaded |-> <<>>,
     last |-> "", fired |-> 0, removed |-> ""]

(***************************************************************************)
(* Construction: loadServersFromConfig has left `servers`, and the         *)
(* constructor of DynamicToolRegistry has started the first pass           *)
(***************************************************************************)
Init ==
    /\ servers \in InitServerLists
    /\ globalState = <<>>
    /\ settings \in Settings
    /\ changes = 0
    /\ discoveredTools = <<>>
    /\ requests = [r \in ReqIds |-> IdleRequest]
    /\ outcome = NoOutcome
    /\ probe = NoProbe
    /\ LET w == collect(refreshToolDiscovery(
                    [h |-> [c \in ClientIds |-> Unused], sc |-> <<>>,
                     ps |-> [q \in PassIds |-> IdlePass], rq |-> requests],
                    1, servers, settings))
       IN  /\ heap = w.h
           /\ serverClients = w.sc
           /\ passes = w.ps

(***************************************************************************)
(* McpServerDiscovery: registry changes.  The change event's listener      *)
(* calls refreshToolDiscovery, which runs to its first await.              *)
(***************************************************************************)
FreePass ==
    CHOOSE p \in PassIds :
        /\ ~Running(passes[p])
        /\ \A q \in PassIds : q < p => Running(passes[q])

\* Array.findIndex(s => s.id === id), one-based; 0 stands for -1
findIndex(list, id) ==
    LET hits == {i \in 1 .. Len(list) : list[i].id = id}
    IN  IF hits = {} THEN 0 ELSE CHOOSE i \in hits : \A j \in hits : i <= j

\* an upsert that always pushes
upsert_AlwaysPush(list, d) ==
    Append(list, d)

\* replace the first descriptor of that id, or push
upsert(list, d) ==
    LET existingIndex == findIndex(list, d.id)
    IN  IF existingIndex >= 1
        THEN [list EXCEPT ![existingIndex] = d]
        ELSE Append(list, d)

filterOut(list, id) == SelectSeq(list, LAMBDA s : s.id # id)

(***************************************************************************)
(* McpServerDiscovery: loading                                             *)
(***************************************************************************)
DefaultPostgres ==
    [id |-> "default-postgres", transport |-> "stdio", command |-> "npx",
     url |-> "", categories |-> <<"database", "postgresql">>,
     participantId |-> PidFull]

addDefaultPostgresServer(list) == Append(list, DefaultPostgres)

RECURSIVE mergeServers(_, _)
\* the merge loop of loadServersFromConfig over the global state's servers
mergeServers(allServers, globalServers) ==
    IF globalServers = <<>> THEN allServers
    ELSE mergeServers(upsert(allServers, Head(globalServers)), Tail(globalServers))

\* a loading whose catch block adds nothing
loadServersFromConfig_NoDefaultOnFailure(configuredServers, globalServers, fails) ==
    IF fails THEN <<>>
    ELSE LET allServers == mergeServers(configuredServers, globalServers)
         IN  IF Len(allServers) = 0
             THEN addDefaultPostgresServer(allServers)
             ELSE allServers

\* this.servers after loadServersFromConfig in the constructor; fails: a
\* read of a layer or the merge throws
loadServersFromConfig(configuredServers, globalServers, fails) ==
    IF fails THEN addDefaultPostgresServer(<<>>)
    ELSE LET allServers == mergeServers(configuredServers, globalServers)
         IN  IF Len(allServers) = 0
             THEN addDefaultPostgresServer(allServers)
             ELSE allServers

CanChange ==
    /\ Quiet
    /\ changes < MaxChanges
    /\ \E p \in PassIds : ~Running(passes[p])

addServer(d) ==
    /\ CanChange
    /\ changes' = changes + 1
    /\ servers' = upsert(servers, d)
    /\ globalState' = servers'
    /\ discoveredTools' = <<>>
    /\ Install(refreshToolDiscovery(World, FreePass, servers', settings))
    /\ UNCHANGED <<settings, routeVars, probe>>

removeServer(id) ==
    /\ CanChange
    /\ \E i \in 1 .. Len(servers) : servers[i].id = id
    /\ changes' = changes + 1
    /\ servers' = filterOut(servers, id)
    /\ globalState' = servers'
    /\ discoveredTools' = <<>>
    /\ Install(refreshToolDiscovery(World, FreePass, servers', settings))
    /\ UNCHANGED <<settings, routeVars, probe>>

(***************************************************************************)
(* Continuations of a pass                                                 *)
(***************************************************************************)
\* client.close() resolved inside disconnect()
DisconnectClientClosed(p) ==
    /\ Quiet
    /\ passes[p].pc = "dClient"
    /\ LET cid == passes[p].cid
           r == disconnectAfterClient(heap[cid])
           w == [World EXCEPT !.h[cid] = r.c]
       IN  IF r.pc = ""
           THEN Install(disconnectLoop(w, p, servers, settings))
           ELSE Install([w EXCEPT !.ps[p].pc = r.pc])
    /\ UNCHANGED <<registryVars, discoveredTools, routeVars, probe>>

\* transport.close() resolved inside disconnect()
DisconnectTransportClosed(p) ==
    /\ Quiet
    /\ passes[p].pc = "dTransport"
    /\ Install(disconnectLoop(
            [World EXCEPT !.h[passes[p].cid] = disconnectAfterTransport(@)],
            p, servers, settings))
    /\ UNCHANGED <<registryVars, discoveredTools, routeVars, probe>>

\* client.connect(transport) resolved: connected, then listTools() is called
\* (it throws when disconnect() has dropped the SDK client meanwhile)
ConnectResolved(p) ==
    /\ Quiet
    /\ passes[p].pc = "conn"
    /\ heap[passes[p].cid].transport = "starting"
    /\ LET cid == passes[p].cid
           w == [World EXCEPT !.h[cid] = connectResolved(@)]
       IN  IF isConnected(w.h[cid]) /\ w.h[cid].client
           THEN Install([w EXCEPT !.ps[p].pc = "list"])
           ELSE Install(serverLoop(w, p, settings))
    /\ UNCHANGED <<registryVars, discoveredTools, routeVars, probe>>

\* a rejected connect that is tried again for the same server
ConnectRejected_Retry(p) ==
    /\ Quiet
    /\ passes[p].pc = "conn"
    /\ Install(serverLoop(
            [World EXCEPT !.h[passes[p].cid].transport = closed(@),
                          !.ps[p].si = @ - 1],
            p, settings))
    /\ UNCHANGED <<registryVars, discoveredTools, routeVars, probe>>

\* client.connect(transport) was rejected: caught in discoverToolsFromServer
ConnectRejected(p) ==
    /\ Quiet
    /\ passes[p].pc = "conn"
    /\ Install(serverLoop(
            [World EXCEPT !.h[passes[p].cid].transport = closed(@)], p, settings))
    /\ UNCHANGED <<registryVars, discoveredTools, routeVars, probe>>

\* listTools() resolved with `tools`: they are registered
ListToolsResolved(p, tools) ==
    /\ Quiet
    /\ passes[p].pc = "list"
    /\ heap[passes[p].cid].transport = "live"
    /\ LET d == passes[p].snap[passes[p].si]
       IN  /\ discoveredTools' = registerTools(discoveredTools, tools, d)
           /\ Install(serverLoop(
                    [World EXCEPT !.ps[p].got = @ \cup
                        {toolKey(d.id, tools[i]) : i \in 1 .. Len(tools)}],
                    p, settings))
    /\ UNCHANGED <<registryVars, routeVars, probe>>

\* listTools() was rejected: caught in discoverToolsFromServer
ListToolsRejected(p) ==
    /\ Quiet
    /\ passes[p].pc = "list"
    /\ Install(serverLoop(World, p, settings))
    /\ UNCHANGED <<registryVars, discoveredTools, routeVars, probe>>

(***************************************************************************)
(* The environment                                                         *)
(***************************************************************************)
\* the transport of a connected client closes (process exit, pipe error,
\* connection loss); McpClient installs no handler for it
TransportCloses(cid) ==
    /\ Quiet
    /\ heap[cid].transport = "live"
    /\ heap' = [heap EXCEPT ![cid].transport = "lost"]
    /\ UNCHANGED <<registryVars, serverClients, discoveredTools, passes, routeVars, probe>>

(***************************************************************************)
(* The router: one of the registered proxy tools is invoked                *)
(***************************************************************************)
FreeRequest == CHOOSE r \in DOMAIN requests : requests[r].pc = "idle"

HandleProxyTool(call) ==
    LET o == handleProxyTool(call.input, call.category, discoveredTools,
                             serverClients, heap)
    IN  /\ Quiet
        /\ outcome' = o
        /\ IF o.cls = "dispatched"
           THEN /\ \E r \in DOMAIN requests : requests[r].pc = "idle"
                /\ requests' = [requests EXCEPT ![FreeRequest] =
                        [pc |-> "call", toolName |-> o.toolName, cid |-> o.cid,
                         cancelled |-> FALSE]]
           ELSE UNCHANGED requests
        /\ UNCHANGED <<registryVars, heap, serverClients, discoveredTools, passes, probe>>

\* callTool resolved: json, executeProxyTool and handleProxyTool return
CallToolResolved(r, content) ==
    /\ Quiet
    /\ requests[r].pc = "call"
    /\ heap[requests[r].cid].transport = "live"
    /\ outcome' = [NoOutcome EXCEPT !.cls = "success", !.sync = FALSE,
                                    !.toolName = requests[r].toolName,
                                    !.invoked = TRUE, !.payload = content,
                                    !.text = formatToolResult(json(content))]
    /\ Install([World EXCEPT !.rq[r] = IdleRequest])
    /\ requests' = [requests EXCEPT ![r] = IdleRequest]
    /\ UNCHANGED <<registryVars, discoveredTools, probe>>

\* callTool was rejected: json and executeProxyTool wrap the error,
\* handleProxyTool returns it as text
CallToolRejected(r) ==
    /\ Quiet
    /\ requests[r].pc = "call"
    /\ outcome' = [NoOutcome EXCEPT !.cls = "failure", !.sync = FALSE,
                                    !.toolName = requests[r].toolName,
                                    !.invoked = TRUE, !.message = MsgError,
                                    !.cause = CauseCallFailed]
    /\ Install([World EXCEPT !.rq[r] = IdleRequest])
    /\ requests' = [requests EXCEPT ![r] = IdleRequest]
    /\ UNCHANGED <<registryVars, discoveredTools, probe>>

\* the caller has the result; a dispatched call waits
Deliver ==
    /\ outcome # NoOutcome
    /\ outcome' = NoOutcome
    /\ UNCHANGED <<registryVars, heap, serverClients, discoveredTools, passes, requests, probe>>

Next ==
    \/ \E d \in Descriptors : addServer(d)
    \/ \E id \in ServerIds : removeServer(id)
    \/ \E p \in PassIds : DisconnectClientClosed(p)
    \/ \E p \in PassIds : DisconnectTransportClosed(p)
    \/ \E p \in PassIds : ConnectResolved(p)
    \/ \E p \in PassIds : ConnectRejected(p)
    \/ \E p \in PassIds : \E tools \in {RemoteTools, <<>>} : ListToolsResolved(p, tools)
    \/ \E p \in PassIds : ListToolsRejected(p)
    \/ \E cid \in ClientIds : TransportCloses(cid)
    \/ \E call \in Calls : HandleProxyTool(call)
    \/ \E r \in ReqIds : \E content \in CallResults : CallToolResolved(r, content)
    \/ \E r \in ReqIds : CallToolRejected(r)
    \/ Deliver

Spec == Init /\ [][Next]_vars

(***************************************************************************)
(* Fairness.  What the program does by itself happens: a result that was   *)
(* computed is handed to the caller, and close() of a local client or      *)
(* transport completes and its continuation runs as soon as the code that  *)
(* is running has returned (strong fairness: a run of the router in        *)
(* between does not put it off for ever).  A request pending on a          *)
(* transport that has closed is rejected.  Nothing makes a remote server   *)
(* answer connect, tools/list or tools/call on a transport that is open:   *)
(* those answers are left without fairness.                                *)
(***************************************************************************)
\* the request a pass waits for is rejected because its transport has closed
PassRequestFailsOnClosure(p) ==
    /\ passes[p].pc \in {"conn", "list"}
    /\ heap[passes[p].cid].transport \in {"lost", "closed"}
    /\ (ConnectRejected(p) \/ ListToolsRejected(p))

\* the tools/call a request waits for is rejected because its transport has
\* closed
CallFailsOnClosure(r) ==
    /\ requests[r].pc = "call"
    /\ heap[requests[r].cid].transport \in {"lost", "closed"}
    /\ CallToolRejected(r)

FairSpec ==
    /\ Spec
    /\ WF_vars(Deliver)
    /\ \A p \in PassIds :
        /\ SF_vars(DisconnectClientClosed(p))
        /\ SF_vars(DisconnectTransportClosed(p))
        /\ SF_vars(PassRequestFailsOnClosure(p))
    /\ \A r \in ReqIds : SF_vars(CallFailsOnClosure(r))

(***************************************************************************)
(* The pure functions, each applied once to arguments drawn at the start;  *)
(* the program stands still meanwhile.                                     *)
(***************************************************************************)
\* the parts a tool name is made of
NameTokens ==
    {"list", "GET", "describe", "generate", "create", "build", "run",
     "execute", "query", "table"}

\* parts in a tool name at most
MaxNameLen == 2

ToolNames == UNION {[1 .. n -> NameTokens] : n \in 0 .. MaxNameLen}

CategoryHints == {<<>>, <<"database", "postgresql">>, <<"custom">>}

\* descriptors in a configuration layer at most
MaxLayerLen == 2

Layers == UNION {[1 .. n -> Descriptors] : n \in 0 .. MaxLayerLen}

CategorizeProbes ==
    {[NoProbe EXCEPT !.fn = "categorizeTools", !.toolName = name,
                     !.serverCategories = hints] :
        name \in ToolNames, hints \in CategoryHints}

AnalyzeProbes ==
    {[NoProbe EXCEPT !.fn = "analyzeRequest", !.prompt = prompt] : prompt \in Prompts}

LoadProbes ==
    {[NoProbe EXCEPT !.fn = "loadServersFromConfig", !.configuredServers = base,
                     !.globalServers = user, !.fails = fails] :
        base \in Layers, user \in Layers, fails \in BOOLEAN}

FunctionInit ==
    /\ servers = <<>>
    /\ globalState = <<>>
    /\ settings = CfgDefault
    /\ changes = 0
    /\ heap = [c \in ClientIds |-> Unused]
    /\ serverClients = <<>>
    /\ discoveredTools = <<>>
    /\ passes = [q \in PassIds |-> IdlePass]
    /\ requests = [r \in ReqIds |-> IdleRequest]
    /\ outcome = NoOutcome
    /\ probe \in CategorizeProbes \cup AnalyzeProbes \cup LoadProbes

CategorizeTools ==
    /\ probe.fn = "categorizeTools"
    /\ ~probe.done
    /\ probe' = [probe EXCEPT !.done = TRUE,
                    !.category = categorizeTools(probe.toolName, probe.serverCategories)]
    /\ UNCHANGED programVars

AnalyzeRequest ==
    /\ probe.fn = "analyzeRequest"
    /\ ~probe.done
    /\ probe' = [probe EXCEPT !.done = TRUE, !.analysis = analyzeRequest(probe.prompt)]
    /\ UNCHANGED programVars

LoadServersFromConfig ==
    /\ probe.fn = "loadServersFromConfig"
    /\ ~probe.done
    /\ probe' = [probe EXCEPT !.done = TRUE,
                    !.loaded = loadServersFromConfig(probe.configuredServers,
                                                     probe.globalServers, probe.fails)]
    /\ UNCHANGED programVars

FunctionNext ==
    \/ CategorizeTools
    \/ AnalyzeRequest
    \/ LoadServersFromConfig

FunctionSpec == FunctionInit /\ [][FunctionNext]_vars

(***************************************************************************)
(* The router with two invocations at a time and their cancellation       *)
(* tokens, on the catalog of the first discovery pass (the registry is     *)
(* left as it was loaded).                                                 *)
(***************************************************************************)
\* the handleProxyTool calls that can wait on a transport together
RouterReqIds == {1, 2}

RouterInit ==
    /\ servers \in InitServerLists
    /\ globalState = <<>>
    /\ settings \in Settings
    /\ changes = 0
    /\ discoveredTools = <<>>
    /\ requests = [r \in RouterReqIds |-> IdleRequest]
    /\ outcome = NoOutcome
    /\ probe = NoProbe
    /\ LET w == collect(refreshToolDiscovery(
                    [h |-> [c \in ClientIds |-> Unused], sc |-> <<>>,
                     ps |-> [q \in PassIds |-> IdlePass], rq |-> requests],
                    1, servers, settings))
       IN  /\ heap = w.h
           /\ serverClients = w.sc
           /\ passes = w.ps

\* the token of a waiting call is cancelled: handleProxyTool has put the
\* token into the ToolExecutionContext, and nothing reads it or listens
CancellationRequested(r) ==
    /\ Quiet
    /\ requests[r].pc = "call"
    /\ ~requests[r].cancelled
    /\ requests' = [requests EXCEPT ![r].cancelled = TRUE]
    /\ UNCHANGED <<registryVars, heap, serverClients, discoveredTools, passes,
                   outcome, probe>>

RouterNext ==
    \/ \E p \in PassIds : ConnectResolved(p)
    \/ \E p \in PassIds : ConnectRejected(p)
    \/ \E p \in PassIds : \E tools \in {RemoteTools, <<>>} : ListToolsResolved(p, tools)
    \/ \E p \in PassIds : ListToolsRejected(p)
    \/ \E cid \in ClientIds : TransportCloses(cid)
    \/ \E call \in Calls : HandleProxyTool(call)
    \/ \E r \in RouterReqIds : \E content \in CallResults : CallToolResolved(r, content)
    \/ \E r \in RouterReqIds : CallToolRejected(r)
    \/ \E r \in RouterReqIds : CancellationRequested(r)
    \/ Deliver

RouterSpec == RouterInit /\ [][RouterNext]_vars

(***************************************************************************)
(* McpServerDiscovery by itself, over the two configuration layers.  The   *)
(* probe is the object and what it reads: configuredServers is the         *)
(* 'toolsBridger.mcpServers' setting, globalServers the globalState entry  *)
(* 'mcpServers', loaded is this.servers.  last is the operation that ran   *)
(* last, fired the number of onDidChangeMcpServerDefinitions events it     *)
(* fired, removed the id the last removeServer was called with (until      *)
(* something adds or configures servers again).                            *)
(***************************************************************************)
RemovableIds == ServerIds \cup {DefaultPostgres.id}

DiscoveryInit ==
    /\ servers = <<>>
    /\ globalState = <<>>
    /\ settings = CfgDefault
    /\ changes = 0
    /\ heap = [c \in ClientIds |-> Unused]
    /\ serverClients = <<>>
    /\ discoveredTools = <<>>
    /\ passes = [q \in PassIds |-> IdlePass]
    /\ requests = [r \in ReqIds |-> IdleRequest]
    /\ outcome = NoOutcome
    /\ probe \in {[NoProbe EXCEPT !.fn = "McpServerDiscovery",
                                 !.configuredServers = base, !.globalServers = user] :
                    base \in Layers, user \in Layers}

Constructed == probe.fn = "McpServerDiscovery" /\ probe.last # ""

\* activate: `new McpServerDiscovery(context)`, at the start of a session
\* and of every later one; fails: reading a layer throws
Activate(fails) ==
    /\ probe.fn = "McpServerDiscovery"
    /\ probe' = [probe EXCEPT !.last = "activate", !.fired = 0, !.fails = fails,
                    !.loaded = loadServersFromConfig(probe.configuredServers,
                                                     probe.globalServers, fails)]
    /\ UNCHANGED programVars

\* addServer on the object: replace or push, save, fire
DiscoveryAddServer(d) ==
    /\ Constructed
    /\ LET list == upsert(probe.loaded, d)
       IN  probe' = [probe EXCEPT !.last = "addServer", !.fired = 1, !.removed = "",
                                  !.loaded = list, !.globalServers = list]
    /\ UNCHANGED programVars

\* a removeServer that saves and fires whether it deleted or not
DiscoveryRemoveServer_AlwaysFires(id) ==
    /\ Constructed
    /\ LET list == filterOut(probe.loaded, id)
       IN  probe' = [probe EXCEPT !.last = "removeServer", !.fired = 1,
                                  !.removed = id, !.loaded = list,
                                  !.globalServers = list]
    /\ UNCHANGED programVars

\* removeServer on the object: filter; save and fire when the length changed
DiscoveryRemoveServer(id) ==
    /\ Constructed
    /\ LET list == filterOut(probe.loaded, id)
       IN  IF Len(list) # Len(probe.loaded)
           THEN probe' = [probe EXCEPT !.last = "removeServer", !.fired = 1,
                                       !.removed = id, !.loaded = list,
                                       !.globalServers = list]
           ELSE probe' = [probe EXCEPT !.last = "removeServer", !.fired = 0,
                                       !.removed = id]
    /\ UNCHANGED programVars

\* the 'toolsBridger.mcpServers' setting changes while the extension runs:
\* the listener of activate calls handleConfigurationChange, which logs
ConfigurationChanges(base) ==
    /\ Constructed
    /\ base # probe.configuredServers
    /\ probe' = [probe EXCEPT !.last = "configurationChange", !.fired = 0,
                              !.removed = "", !.configuredServers = base]
    /\ UNCHANGED programVars

\* the values one edit of the setting gives it: an entry is added at its
\* end, or its last entry is removed
SettingEdits(base) ==
    {Append(base, d) : d \in {e \in Descriptors : Len(base) < MaxLayerLen}}
        \cup {SubSeq(base, 1, Len(base) - 1) : n \in {m \in {1} : base # <<>>}}

DiscoveryNext ==
    \/ \E fails \in BOOLEAN : Activate(fails)
    \/ \E d \in Descriptors : DiscoveryAddServer(d)
    \/ \E id \in RemovableIds : DiscoveryRemoveServer(id)
    \/ \E base \in SettingEdits(probe.configuredServers) : ConfigurationChanges(base)

DiscoverySpec == DiscoveryInit /\ [][DiscoveryNext]_vars

(***************************************************************************)
(* The registry's life: registry changes, passes in which a close() inside *)
(* disconnect() may be rejected, and dispose(), which deactivate calls     *)
(* once.  No tool is invoked.                                              *)
(***************************************************************************)
RECURSIVE disposeLoop(_, _)
\* dispose() from its loop test to the await of a close() in disconnect(),
\* or through the clear of serverClients to its end
disposeLoop(w, p) ==
    LET pass == w.ps[p]
    IN  IF pass.it < Len(w.sc)
        THEN LET cid == w.sc[pass.it + 1].cid
                 r == disconnectCall(w.h[cid])
                 w1 == [w EXCEPT !.h[cid] = r.c, !.ps[p].it = @ + 1]
             IN  IF r.pc = ""
                 THEN disposeLoop(w1, p)
                 ELSE [w1 EXCEPT !.ps[p].cid = cid,
                                 !.ps[p].pc = IF r.pc = "dClient" THEN "xClient"
                                              ELSE "xTransport"]
        ELSE collect([w EXCEPT !.sc = <<>>,
                        !.ps = [clearIterators(w.ps, p) EXCEPT
                                    ![p].pc = "disposed", ![p].it = 0, ![p].cid = 0]])

\* dispose() has been called
DisposeCalled ==
    \E p \in PassIds : passes[p].pc \in {"xClient", "xTransport", "disposed", "disposeFailed"}

\* what dispose() leaves of the catalog: discoveredTools.clear() at its end
disposedTools(w, p, dt) == IF w.ps[p].pc = "disposed" THEN <<>> ELSE dt

\* deactivate: toolRegistry.dispose() from its call to its first await
Dispose ==
    /\ Quiet
    /\ ~DisposeCalled
    /\ \E p \in PassIds : ~Running(passes[p])
    /\ LET w == disposeLoop([World EXCEPT !.ps[FreePass] = IdlePass], FreePass)
       IN  /\ Install(w)
           /\ discoveredTools' = disposedTools(w, FreePass, discoveredTools)
    /\ UNCHANGED <<registryVars, routeVars, probe>>

\* client.close() resolved inside a disconnect() of dispose()
DisposeClientClosed(p) ==
    /\ Quiet
    /\ passes[p].pc = "xClient"
    /\ LET cid == passes[p].cid
           r == disconnectAfterClient(heap[cid])
           w == [World EXCEPT !.h[cid] = r.c]
           w1 == IF r.pc = "" THEN disposeLoop(w, p)
                 ELSE [w EXCEPT !.ps[p].pc = "xTransport"]
       IN  /\ Install(w1)
           /\ discoveredTools' = disposedTools(w1, p, discoveredTools)
    /\ UNCHANGED <<registryVars, routeVars, probe>>

\* transport.close() resolved inside a disconnect() of dispose()
DisposeTransportClosed(p) ==
    /\ Quiet
    /\ passes[p].pc = "xTransport"
    /\ LET w == disposeLoop(
                    [World EXCEPT !.h[passes[p].cid] = disconnectAfterTransport(@)], p)
       IN  /\ Install(w)
           /\ discoveredTools' = disposedTools(w, p, discoveredTools)
    /\ UNCHANGED <<registryVars, routeVars, probe>>

\* a close() inside a disconnect() of dispose() was rejected: dispose()
\* throws to deactivate, which logs
DisposeRejected(p) ==
    /\ Quiet
    /\ passes[p].pc \in {"xClient", "xTransport"}
    /\ Install([World EXCEPT !.ps[p].pc = "disposeFailed", !.ps[p].cid = 0])
    /\ UNCHANGED <<registryVars, discoveredTools, routeVars, probe>>

\* a close() inside a disconnect() of a pass was rejected: disconnect()
\* throws into the catch of refreshToolDiscovery, which logs
DisconnectRejected(p) ==
    /\ Quiet
    /\ passes[p].pc \in {"dClient", "dTransport"}
    /\ Install([World EXCEPT !.ps[p].pc = "caught", !.ps[p].cid = 0])
    /\ UNCHANGED <<registryVars, discoveredTools, routeVars, probe>>

\* the commands that change the registry are there until deactivation
CommandAddServer(d) == ~DisposeCalled /\ addServer(d)

CommandRemoveServer(id) == ~DisposeCalled /\ removeServer(id)

LifecycleNext ==
    \/ \E d \in Descriptors : CommandAddServer(d)
    \/ \E id \in ServerIds : CommandRemoveServer(id)
    \/ \E p \in PassIds : DisconnectClientClosed(p)
    \/ \E p \in PassIds : DisconnectTransportClosed(p)
    \/ \E p \in PassIds : DisconnectRejected(p)
    \/ \E p \in PassIds : ConnectResolved(p)
    \/ \E p \in PassIds : ConnectRejected(p)
    \/ \E p \in PassIds : \E tools \in {RemoteTools, <<>>} : ListToolsResolved(p, tools)
    \/ \E p \in PassIds : ListToolsRejected(p)
    \/ Dispose
    \/ \E p \in PassIds : DisposeClientClosed(p)
    \/ \E p \in PassIds : DisposeTransportClosed(p)
    \/ \E p \in PassIds : DisposeRejected(p)

LifecycleSpec == Init /\ [][LifecycleNext]_vars

(***************************************************************************)
(* One McpClient shared by several callers, as the tools of                *)
(* registerPostgreSQLTools share theirs: each invoke tests isConnected()   *)
(* and calls connect(); disconnect() may be called at any time.  The probe *)
(* field mcp is the object.                                                *)
(***************************************************************************)
ClientInit ==
    /\ servers = <<>>
    /\ globalState = <<>>
    /\ settings = CfgStdioA
    /\ changes = 0
    /\ heap = [c \in ClientIds |-> Unused]
    /\ serverClients = <<>>
    /\ discoveredTools = <<>>
    /\ passes = [q \in PassIds |-> IdlePass]
    /\ requests = [r \in ReqIds |-> IdleRequest]
    /\ outcome = NoOutcome
    /\ probe = [NoProbe EXCEPT !.fn = "McpClient", !.mcp = NoMcp]

\* close() of transport k
closeTransport(ts, k) == [ts EXCEPT ![k] = "closed"]

\* `if (!isConnected()) await connect()`: connect() up to its await of
\* client.connect(transport); it returns at once when connected is set
McpConnect(c) ==
    LET m == probe.mcp
        k == Len(m.transports) + 1
    IN  /\ probe.fn = "McpClient"
        /\ m.callers[c].pc = "idle"
        /\ k <= MaxTransports
        /\ probe' = [probe EXCEPT !.mcp =
                IF isConnected(m) THEN m
                ELSE [m EXCEPT !.transports = Append(@, "starting"),
                               !.transport = k, !.client = k,
                               !.callers[c] = [pc |-> "conn", k |-> k]]]
        /\ UNCHANGED programVars

\* client.connect(transport) resolved: this.connected = true
McpConnectResolved(c) ==
    LET m == probe.mcp
        k == m.callers[c].k
    IN  /\ m.callers[c].pc = "conn"
        /\ m.transports[k] = "starting"
        /\ probe' = [probe EXCEPT !.mcp =
                [m EXCEPT !.transports[k] = "live", !.connected = TRUE,
                          !.callers[c] = IdleCaller]]
        /\ UNCHANGED programVars

\* client.connect(transport) was rejected: connect() rethrows
McpConnectRejected(c) ==
    LET m == probe.mcp
        k == m.callers[c].k
    IN  /\ m.callers[c].pc = "conn"
        /\ probe' = [probe EXCEPT !.mcp =
                [m EXCEPT !.transports = closeTransport(@, k),
                          !.callers[c] = IdleCaller]]
        /\ UNCHANGED programVars

\* disconnect() from `if (this.transport)` on
disconnectTransport(m, c) ==
    IF m.transport # 0
    THEN [m EXCEPT !.transports = closeTransport(@, m.transport),
                   !.callers[c] = [pc |-> "dTransport", k |-> m.transport]]
    ELSE [m EXCEPT !.connected = FALSE, !.callers[c] = IdleCaller]

\* disconnect() up to its first await
McpDisconnect(c) ==
    LET m == probe.mcp
    IN  /\ probe.fn = "McpClient"
        /\ m.callers[c].pc = "idle"
        /\ probe' = [probe EXCEPT !.mcp =
                IF m.client # 0
                THEN [m EXCEPT !.transports = closeTransport(@, m.client),
                               !.callers[c] = [pc |-> "dClient", k |-> m.client]]
                ELSE disconnectTransport(m, c)]
        /\ UNCHANGED programVars

\* client.close() resolved: this.client = null, then the transport
McpClientClosed(c) ==
    LET m == probe.mcp
    IN  /\ m.callers[c].pc = "dClient"
        /\ probe' = [probe EXCEPT !.mcp = disconnectTransport([m EXCEPT !.client = 0], c)]
        /\ UNCHANGED programVars

\* transport.close() resolved: this.transport = null, connected = false
McpTransportClosed(c) ==
    LET m == probe.mcp
    IN  /\ m.callers[c].pc = "dTransport"
        /\ probe' = [probe EXCEPT !.mcp =
                [m EXCEPT !.transport = 0, !.connected = FALSE,
                          !.callers[c] = IdleCaller]]
        /\ UNCHANGED programVars

ClientNext ==
    \/ \E c \in CallerIds : McpConnect(c)
    \/ \E c \in CallerIds : McpConnectResolved(c)
    \/ \E c \in CallerIds : McpConnectRejected(c)
    \/ \E c \in CallerIds : McpDisconnect(c)
    \/ \E c \in CallerIds : McpClientClosed(c)
    \/ \E c \in CallerIds : McpTransportClosed(c)

ClientSpec == ClientInit /\ [][ClientNext]_vars

(***************************************************************************)
(* The chat participant's tool-calling loop (runWithTools).  The probe     *)
(* field chat is the handler's state.                                      *)
(***************************************************************************)
\* rounds of one request at most
MaxRounds == 3

\* vscode.lm.tools: t1 is a proxy tool, t2 a tool of another extension
LmTools == << [name |-> "t1", proxy |-> TRUE], [name |-> "t2", proxy |-> FALSE] >>

\* request.toolReferences: none, a proxy tool, another tool and one that is
\* not registered
RefLists == {<<>>, <<"t1">>, <<"t2", "t3">>}

CallA == [callId |-> "a", name |-> "t1"]
CallB == [callId |-> "b", name |-> "t2"]

\* the tool calls of one response
ToolCallLists == {<<>>, <<CallA>>, <<CallB, CallA>>}

ResultOk == "content"
ErrorText(name) == <<"Error invoking tool", name>>

toolNames(list) == [n \in 1 .. Len(list) |-> list[n].name]

\* `tools`: the proxy and dynamic tools of vscode.lm.tools
proxyTools == toolNames(SelectSeq(LmTools, LAMBDA t : t.proxy))

\* runWithTools from its call to the await of sendRequest
runWithTools(ch) ==
    LET options ==
            IF ch.toolReferences # <<>>
            THEN [toolMode |-> "Required",
                  tools |-> toolNames(SelectSeq(LmTools,
                                LAMBDA t : t.name = Head(ch.toolReferences)))]
            ELSE [toolMode |-> "", tools |-> proxyTools]
    IN  [ch EXCEPT !.toolReferences = IF @ = <<>> THEN <<>> ELSE Tail(@),
                   !.options = options,
                   !.rounds = Append(@, options),
                   !.pc = "send"]

ChatInit ==
    /\ servers = <<>>
    /\ globalState = <<>>
    /\ settings = CfgDefault
    /\ changes = 0
    /\ heap = [c \in ClientIds |-> Unused]
    /\ serverClients = <<>>
    /\ discoveredTools = <<>>
    /\ passes = [q \in PassIds |-> IdlePass]
    /\ requests = [r \in ReqIds |-> IdleRequest]
    /\ outcome = NoOutcome
    /\ probe \in {[NoProbe EXCEPT !.fn = "runWithTools",
                        !.chat = runWithTools([NoChat EXCEPT !.request = refs,
                                                             !.toolReferences = refs])] :
                    refs \in RefLists}

\* a message of the conversation
Assistant(toolCalls) ==
    [role |-> "assistant", calls |-> toolCalls, results |-> <<>>, thrown |-> <<>>]

User(toolResults, thrown) ==
    [role |-> "user", calls |-> <<>>, results |-> toolResults, thrown |-> thrown]

\* the loop over toolCalls after one invocation has ended: the next call, or
\* the results message and the next round
nextToolCall(ch) ==
    IF ch.i < Len(ch.toolCalls)
    THEN [ch EXCEPT !.i = @ + 1]
    ELSE runWithTools([ch EXCEPT !.messages = Append(@, User(ch.toolResults, ch.thrown)),
                                 !.i = 0])

\* the try branch: the result of invokeTool under the call's id
invokeReturned(toolResults, toolCall, content) ==
    Append(toolResults, [callId |-> toolCall.callId, content |-> content])

\* a catch branch that pushes no result
invokeCaught_Dropped(toolResults, toolCall) ==
    toolResults

\* the catch branch: an error text under the call's id
invokeCaught(toolResults, toolCall) ==
    Append(toolResults, [callId |-> toolCall.callId, content |-> ErrorText(toolCall.name)])

\* the response has streamed, with these tool calls
ResponseStreams(toolCalls) ==
    LET ch == probe.chat
    IN  /\ probe.fn = "runWithTools"
        /\ ch.pc = "send"
        /\ Len(ch.rounds) = MaxRounds => toolCalls = <<>>
        /\ probe' = [probe EXCEPT !.chat =
                IF toolCalls = <<>>
                THEN [ch EXCEPT !.toolCalls = <<>>, !.pc = "end"]
                ELSE [ch EXCEPT !.messages = Append(@, Assistant(toolCalls)),
                                !.toolCalls = toolCalls, !.toolResults = <<>>,
                                !.thrown = <<>>, !.i = 1, !.pc = "invoke"]]
        /\ UNCHANGED programVars

\* sendRequest was rejected: runWithTools throws to the handler
SendRequestRejected ==
    /\ probe.fn = "runWithTools"
    /\ probe.chat.pc = "send"
    /\ probe' = [probe EXCEPT !.chat.pc = "failed"]
    /\ UNCHANGED programVars

\* vscode.lm.invokeTool resolved
InvokeToolResolved ==
    LET ch == probe.chat
    IN  /\ probe.fn = "runWithTools"
        /\ ch.pc = "invoke"
        /\ probe' = [probe EXCEPT !.chat = nextToolCall(
                [ch EXCEPT !.toolResults = invokeReturned(@, ch.toolCalls[ch.i], ResultOk),
                           !.thrown = Append(@, FALSE)])]
        /\ UNCHANGED programVars

\* vscode.lm.invokeTool threw
InvokeToolRejected ==
    LET ch == probe.chat
    IN  /\ probe.fn = "runWithTools"
        /\ ch.pc = "invoke"
        /\ probe' = [probe EXCEPT !.chat = nextToolCall(
                [ch EXCEPT !.toolResults = invokeCaught(@, ch.toolCalls[ch.i]),
                           !.thrown = Append(@, TRUE)])]
        /\ UNCHANGED programVars

ChatNext ==
    \/ \E toolCalls \in ToolCallLists : ResponseStreams(toolCalls)
    \/ SendRequestRejected
    \/ InvokeToolResolved
    \/ InvokeToolRejected

ChatSpec == ChatInit /\ [][ChatNext]_vars

(***************************************************************************)
(* Vocabulary of the properties                                            *)
(***************************************************************************)
\* this step is the run in which pass p ends (its change event is fired)
PassCompletes(p) == passes[p].pc # "done" /\ passes'[p].pc = "done"

\* the catalog holds a tool under key k
InCatalog(dt, k) ==
    \E i \in 1 .. Len(dt) : toolKey(dt[i].serverId, dt[i].name) = k

\* a call of handleProxyTool has just run, on the catalog and the clients
\* of this state
Routed == outcome.cls # "none" /\ outcome.sync

\* the request carries both fields the router requires
Carried(input) ==
    input.present /\ input.toolName # NameEmpty /\ input.participantId # ""

\* the Map holds no connected client for the server
ClientDown(sid) ==
    LET cid == getClient(serverClients, sid)
    IN  cid = 0 \/ ~isConnected(heap[cid])

NotFoundClass(o) ==
    o.cls = "failure" /\ o.message \in {MsgNoServers, MsgNoCategoryTools, MsgNotFound}

\* the failure that names the server as not connected
Unreachable(o, sid) ==
    /\ o.cls = "failure"
    /\ o.message = MsgError
    /\ o.cause = CauseNotConnected
    /\ o.serverId = sid
    /\ ~NotFoundClass(o)
    /\ ~o.invoked

AbsentName(name) == \A i \in 1 .. Len(discoveredTools) : discoveredTools[i].name # name

CategoryNames(category) ==
    {discoveredTools[i].name :
        i \in {j \in 1 .. Len(discoveredTools) : discoveredTools[j].category = category}}

\* a not-found failure that lists the names of the category's tools, when
\* it has any
NotFoundListing(o) ==
    /\ o.cls = "failure"
    /\ o.message \in {MsgNotFound, MsgNoCategoryTools}
    /\ ~o.invoked
    /\ CategoryNames(o.category) # {} =>
        /\ o.message = MsgNotFound
        /\ {o.names[k] : k \in 1 .. Len(o.names)} = CategoryNames(o.category)

(***************************************************************************)
(* Properties                                                              *)
(***************************************************************************)
\* C1: a catalog read never observes a catalog a pass has emptied or only
\* partly filled: what getAllTools, getToolByName and getToolsByCategory
\* return changes only in the run in which a pass completes.
C1_CatalogChangesOnlyAtCompletion ==
    [][discoveredTools' # discoveredTools => \E p \in PassIds : PassCompletes(p)]_vars

\* C2: when a pass completes, the catalog holds every tool the pass has
\* registered for the servers whose connect and listTools succeeded in it.
C2_CompletedPassHoldsItsTools ==
    [][\A p \in PassIds :
        PassCompletes(p) => \A k \in passes'[p].got : InCatalog(discoveredTools', k)]_vars

\* C3: a pass that waits for a server's connect or listTools eventually
\* completes, whether or not that server ever answers.
C3_WaitingPassCompletes ==
    \A p \in PassIds : (passes[p].pc \in {"conn", "list"}) ~> (passes[p].pc = "done")

\* C4: a successful result carries the content the transport returned for
\* the call, with no item dropped.
C4_SuccessCarriesTransportPayload ==
    outcome.cls = "success" => outcome.text.items = outcome.payload

\* C5: a client held for a server has opened the endpoint that server's own
\* descriptor names (its transport kind and its command or url).
C5_ClientOpensItsDescriptor ==
    \A i \in 1 .. Len(serverClients) :
        LET c == heap[serverClients[i].cid]
        IN  c.bound # NoEndpoint =>
                \E d \in Descriptors : d.id = serverClients[i].sid /\ c.bound = EndpointOf(d)

\* C6: every invocation handed to the transport reaches a terminal outcome,
\* whether or not the transport ever answers.
C6_InvocationTerminates ==
    \A r \in ReqIds : (requests[r].pc = "call") ~> (requests[r].pc = "idle")

\* C7 (as stated): a request whose tool name is in the catalog, while the
\* Map holds no connected client for the owning server, gets the
\* server-unreachable failure and callTool is not called.
C7_NameInCatalog_Unreachable ==
    LET i == getToolByName(discoveredTools, outcome.input.toolName, "")
    IN  (/\ Routed
         /\ outcome.input.present
         /\ i # 0
         /\ ClientDown(discoveredTools[i].serverId))
        => Unreachable(outcome, discoveredTools[i].serverId)

\* C7 (amended): a request that carries toolName and participantId and
\* resolves to a catalog tool of that name and participant, while the Map
\* holds no connected client for the tool's server, gets the failure
\* "Server not connected: <serverId>", which is none of the not-found
\* failures, and callTool is not called.
C7_Resolved_Unreachable ==
    LET i == getToolByName(discoveredTools, outcome.input.toolName,
                           outcome.input.participantId)
    IN  (/\ Routed
         /\ Carried(outcome.input)
         /\ i # 0
         /\ ClientDown(discoveredTools[i].serverId))
        => Unreachable(outcome, discoveredTools[i].serverId)

\* C7 witness: a carried request resolved to a tool whose server has no
\* connected client, and was answered with the unreachable failure
C7_Witness ==
    /\ Routed
    /\ Carried(outcome.input)
    /\ getToolByName(discoveredTools, outcome.input.toolName,
                     outcome.input.participantId) # 0
    /\ outcome.cause = CauseNotConnected
    /\ ClientDown(outcome.serverId)

\* C8: a client whose transport has closed by itself reports
\* isConnected() false.
C8_ClosedTransportIsDisconnected ==
    \A c \in ClientIds : heap[c].transport = "lost" => ~isConnected(heap[c])

\* C9 (as stated): a request for a tool name absent from a non-empty catalog
\* gets a not-found failure, callTool is not called, and the message lists
\* the names of all catalog tools of the requested category when there are
\* any.
C9_AbsentName_NotFound ==
    (/\ Routed
     /\ outcome.input.present
     /\ outcome.input.toolName # NameEmpty
     /\ discoveredTools # <<>>
     /\ AbsentName(outcome.input.toolName))
    => NotFoundListing(outcome)

\* C9 (amended): a request that carries toolName and participantId, for a
\* tool name absent from a non-empty catalog, gets a not-found failure,
\* callTool is not called, and the message lists the names of all catalog
\* tools of the requested category when there are any.
C9_CarriedAbsentName_NotFound ==
    (/\ Routed
     /\ Carried(outcome.input)
     /\ discoveredTools # <<>>
     /\ AbsentName(outcome.input.toolName))
    => NotFoundListing(outcome)

\* C9 witness: an absent name was answered with the names of the category's
\* tools, while the catalog holds tools of another category too
C9_Witness ==
    /\ Routed
    /\ Carried(outcome.input)
    /\ AbsentName(outcome.input.toolName)
    /\ outcome.message = MsgNotFound
    /\ Len(outcome.names) > 0
    /\ Len(outcome.names) < Len(discoveredTools)

\* C10: with an empty catalog every routed request is answered with the
\* guidance to add an MCP server; nothing is thrown and callTool is not
\* called.
C10_EmptyCatalogGuidance ==
    (Routed /\ discoveredTools = <<>>)
    => (outcome.cls = "failure" /\ outcome.message = MsgNoServers /\ ~outcome.invoked)

\* C11: handleProxyTool never throws to its caller: whatever the input, the
\* catalog and the connections, its run ends in a returned result or in the
\* wait for callTool, and a rejected callTool is returned as a failure text
\* that carries the transport's message.
C11_NeverThrows ==
    /\ outcome.cls # "thrown"
    /\ outcome.cause = CauseCallFailed => (outcome.cls = "failure" /\ outcome.message = MsgError)

\* the servers that hold a catalog tool of that name
Owners(name) ==
    {discoveredTools[i].serverId :
        i \in {j \in 1 .. Len(discoveredTools) : discoveredTools[j].name = name}}

\* C12: tools of the same name from two servers are two catalog entries,
\* one per key of server id and name, and for each of them a lookup
\* resolves to that server's entry.
C12_EachServersEntryResolves ==
    /\ \A i, j \in 1 .. Len(discoveredTools) :
        toolKey(discoveredTools[i].serverId, discoveredTools[i].name)
            = toolKey(discoveredTools[j].serverId, discoveredTools[j].name) => i = j
    /\ \A i \in 1 .. Len(discoveredTools) :
        getToolByName(discoveredTools, discoveredTools[i].name,
                      discoveredTools[i].participantId) = i

PatternGroups ==
    << [patterns |-> {"list", "get", "describe"}, category |-> "query"],
       [patterns |-> {"generate", "create", "build"}, category |-> "analysis"],
       [patterns |-> {"run", "execute", "query"}, category |-> "database"] >>

\* the groups a name matches: one of its lower-cased parts is a pattern
MatchingGroups(name) ==
    {g \in 1 .. Len(PatternGroups) :
        \E i \in 1 .. Len(name) : toLowerCase(name[i]) \in PatternGroups[g].patterns}

\* C14: the category categorizeTools gives is the server's first hint when
\* it declares one, else the category of the first pattern group the
\* lower-cased name matches, else 'general'.
C14_CategoryIsFirstHintOrFirstGroup ==
    (probe.fn = "categorizeTools" /\ probe.done) =>
        probe.category =
            IF probe.serverCategories # <<>> THEN probe.serverCategories[1]
            ELSE IF MatchingGroups(probe.toolName) = {} THEN "general"
            ELSE PatternGroups[CHOOSE g \in MatchingGroups(probe.toolName) :
                    \A h \in MatchingGroups(probe.toolName) : g <= h].category

\* C14 witness: a name without hints that matches the first and the third
\* group was categorized 'query'
C14_Witness ==
    /\ probe.fn = "categorizeTools"
    /\ probe.done
    /\ probe.serverCategories = <<>>
    /\ MatchingGroups(probe.toolName) = {1, 3}
    /\ probe.category = "query"

\* C15: analyzeRequest gives for a text what it gave for it before, and for
\* the empty string the neutral domain 'general' as primaryDomain, with
\* confidence 0 and no secondary domains.
C15_EmptyTextIsNeutral ==
    (probe.fn = "analyzeRequest" /\ probe.done) =>
        /\ probe.analysis = analyzeRequest(probe.prompt)
        /\ probe.prompt = EmptyPrompt =>
            probe.analysis =
                [primaryDomain |-> "general", secondaryDomains |-> <<>>, confidence |-> 0]

\* the keyword-match scores of a prompt, by the place of the domain in
\* domainPatterns
ScoresOf(prompt) ==
    [d \in 1 .. Len(domainPatterns) |->
        domainScore(domainPatterns[d].keywords, split(prompt))]

\* domain d ranks before domain e: a higher score, or the same score and an
\* earlier place in the enumeration
RanksBefore(sc, d, e) == sc[d] > sc[e] \/ (sc[d] = sc[e] /\ d < e)

\* the place of a scoring domain in the ranking
RankOf(sc, d) ==
    1 + Cardinality({e \in DOMAIN sc : sc[e] > 0 /\ RanksBefore(sc, e, d)})

\* C16: primaryDomain is a domain of maximal score, the earliest of the
\* enumeration among those, or 'general' when no domain scores; the
\* secondaryDomains are the domains ranked second and third, never the
\* primary; confidence (in tenths) is min(topScore * 2, 10), which is 10
\* exactly from a top score of 5.
C16_RankingAndConfidence ==
    (probe.fn = "analyzeRequest" /\ probe.done) =>
        LET sc == ScoresOf(probe.prompt)
            scored == {d \in DOMAIN sc : sc[d] > 0}
            topScore == IF scored = {} THEN 0
                        ELSE sc[CHOOSE d \in scored : \A e \in scored : sc[e] <= sc[d]]
            a == probe.analysis
            second == a.secondaryDomains
        IN  /\ scored = {} => a.primaryDomain = "general"
            /\ scored # {} =>
                \E d \in scored :
                    /\ a.primaryDomain = domainPatterns[d].domain
                    /\ \A e \in DOMAIN sc : sc[e] <= sc[d]
                    /\ \A e \in DOMAIN sc : e < d => sc[e] < sc[d]
            /\ Len(second) = min(2, IF scored = {} THEN 0 ELSE Cardinality(scored) - 1)
            /\ \A k \in 1 .. Len(second) :
                /\ second[k] # a.primaryDomain
                /\ \E d \in scored :
                    second[k] = domainPatterns[d].domain /\ RankOf(sc, d) = k + 1
            /\ a.confidence = min(topScore * 2, 10)
            /\ (a.confidence = 10) <=> (topScore >= 5)

\* C16 witness: several domains share the top score, a fourth scores too,
\* and the confidence is below 1.0
C16_Witness ==
    /\ probe.fn = "analyzeRequest"
    /\ probe.done
    /\ LET sc == ScoresOf(probe.prompt)
       IN  /\ \E d, e \in DOMAIN sc :
                d # e /\ sc[d] > 0 /\ sc[d] = sc[e] /\ \A f \in DOMAIN sc : sc[f] <= sc[d]
           /\ Cardinality({d \in DOMAIN sc : sc[d] > 0}) > 3
    /\ Len(probe.analysis.secondaryDomains) = 2
    /\ probe.analysis.confidence < 10

IdsOf(layer) == {layer[i].id : i \in 1 .. Len(layer)}

WithId(layer, id) == {layer[i] : i \in {j \in 1 .. Len(layer) : layer[j].id = id}}

\* C17: after loading, an id of both layers is there once, with the user
\* layer's descriptor; an id of one layer only is there with that layer's
\* descriptor; no other id is there (the merged set not being empty).
C17_MergeUserLayerWins ==
    (/\ probe.fn = "loadServersFromConfig"
     /\ probe.done
     /\ ~probe.fails
     /\ IdsOf(probe.configuredServers) \cup IdsOf(probe.globalServers) # {})
    => LET base == probe.configuredServers
           user == probe.globalServers
       IN  /\ \A id \in IdsOf(base) \cap IdsOf(user) :
                /\ Cardinality({i \in 1 .. Len(probe.loaded) : probe.loaded[i].id = id}) = 1
                /\ WithId(probe.loaded, id) \subseteq WithId(user, id)
           /\ \A id \in IdsOf(base) \ IdsOf(user) :
                /\ WithId(probe.loaded, id) # {}
                /\ WithId(probe.loaded, id) \subseteq WithId(base, id)
           /\ \A id \in IdsOf(user) \ IdsOf(base) :
                /\ WithId(probe.loaded, id) # {}
                /\ WithId(probe.loaded, id) \subseteq WithId(user, id)
           /\ IdsOf(probe.loaded) \subseteq IdsOf(base) \cup IdsOf(user)

\* C18: after loading the registry is not empty; with both layers empty, or
\* when loading fails, it holds the default descriptor alone (id
\* 'default-postgres', stdio, with a command); with a layer that is not
\* empty it holds descriptors of the layers only.
C18_DefaultWhenEmptyOrFailed ==
    (probe.fn = "loadServersFromConfig" /\ probe.done) =>
        /\ probe.loaded # <<>>
        /\ (probe.fails \/ (probe.configuredServers = <<>> /\ probe.globalServers = <<>>)) =>
            /\ Len(probe.loaded) = 1
            /\ probe.loaded[1].id = "default-postgres"
            /\ probe.loaded[1].transport = "stdio"
            /\ probe.loaded[1].command # ""
        /\ (~probe.fails /\ (probe.configuredServers # <<>> \/ probe.globalServers # <<>>)) =>
            \A i \in 1 .. Len(probe.loaded) :
                \E j \in 1 .. Len(probe.configuredServers \o probe.globalServers) :
                    probe.loaded[i] = (probe.configuredServers \o probe.globalServers)[j]

\* C18 witness: a loading that failed although a layer held descriptors
\* left the default descriptor
C18_Witness ==
    /\ probe.fn = "loadServersFromConfig"
    /\ probe.done
    /\ probe.fails
    /\ probe.configuredServers # <<>>
    /\ probe.loaded = <<DefaultPostgres>>

\* the fields the descriptor's transport kind requires are there
RequiredFieldsPresent(d) ==
    IF d.transport = "stdio" THEN d.command # "" ELSE d.url # ""

\* C19: no descriptor that lacks the fields its transport kind requires is
\* in getServers() or in the persisted set: addServer rejects it.
C19_NoIncompleteDescriptorStored ==
    /\ \A i \in 1 .. Len(servers) : RequiredFieldsPresent(servers[i])
    /\ \A i \in 1 .. Len(globalState) : RequiredFieldsPresent(globalState[i])

\* no two descriptors of the list have the same id
UniqueIds(list) ==
    \A i, j \in 1 .. Len(list) : list[i].id = list[j].id => i = j

C21_RemovedIdStaysAbsent ==
    (Constructed /\ probe.removed # "") => probe.removed \notin IdsOf(probe.loaded)

\* C22: an operation that changes the registry's descriptor set (addServer,
\* a removeServer that deletes, a load of the configuration, which takes
\* this.servers from [] to what the layers give) has fired exactly one
\* onDidChangeMcpServerDefinitions event; no operation fires more than one.
C22_ChangeFiresOneEvent ==
    Constructed =>
        /\ probe.last \in {"addServer", "activate"} => probe.fired = 1
        /\ probe.last = "removeServer" => probe.fired <= 1

\* C23: when the 'toolsBridger.mcpServers' setting has changed while the
\* extension runs, getServers() is what a load of the new configuration and
\* the persisted state gives.
C23_ConfigurationChangeReloads ==
    (Constructed /\ probe.last = "configurationChange") =>
        probe.loaded =
            loadServersFromConfig(probe.configuredServers, probe.globalServers, FALSE)

\* C24: discovery passes do not interleave: a registry change that arrives
\* during a pass is handled by a pass that starts after that one has
\* finished, so at most one pass is running at any time.
C24_OnePassAtATime ==
    Cardinality({p \in PassIds : Running(passes[p])}) <= 1

\* C25: once the passes triggered by registry changes have all finished,
\* the client map holds one client per descriptor of the latest set, in its
\* order, and no tool and no client of a server that is not in the registry.
C25_LastPassWins ==
    (changes > 0 /\ \A p \in PassIds : ~Running(passes[p])) =>
        /\ [i \in 1 .. Len(serverClients) |-> serverClients[i].sid]
            = [i \in 1 .. Len(servers) |-> servers[i].id]
        /\ \A i \in 1 .. Len(discoveredTools) :
            discoveredTools[i].serverId \in IdsOf(servers)

\* C26: a McpClient that serverClients does not hold (any more) has
\* completed disconnect(): it has no SDK client and no transport, and does
\* not report connected.
C26_DiscardedClientIsDisconnected ==
    \A cid \in ClientIds :
        (heap[cid] # Unused /\ \A i \in 1 .. Len(serverClients) : serverClients[i].cid # cid)
        => /\ ~heap[cid].client
           /\ heap[cid].transport = "null"
           /\ ~isConnected(heap[cid])

\* C27: whenever no discovery pass is in progress, the server of every tool
\* of the catalog is a descriptor of the registry and serverClients holds a
\* client for it that reports connected.
C27_CatalogToolsHaveConnectedClient ==
    (\A p \in PassIds : ~Running(passes[p])) =>
        \A i \in 1 .. Len(discoveredTools) :
            LET sid == discoveredTools[i].serverId
            IN  /\ sid \in IdsOf(servers)
                /\ getClient(serverClients, sid) # 0
                /\ isConnected(heap[getClient(serverClients, sid)])

\* C28: a routed request has callTool called at most once, and only for a
\* tool resolved in the catalog whose server's client was found connected;
\* what the request ends in is success or one failure, and once it has
\* ended after a call no call of it is waiting (no retry).
C28_OneCallOneTerminalOutcome ==
    /\ outcome.cls \in {"none", "dispatched", "success", "failure"}
    /\ (Routed /\ outcome.invoked) =>
        LET i == getToolByName(discoveredTools, outcome.input.toolName,
                               outcome.input.participantId)
        IN  /\ outcome.cls = "dispatched"
            /\ i # 0
            /\ outcome.serverId = discoveredTools[i].serverId
            /\ outcome.cid = getClient(serverClients, outcome.serverId)
            /\ outcome.cid # 0
            /\ isConnected(heap[outcome.cid])
    /\ (Routed /\ outcome.cls # "dispatched") => ~outcome.invoked
    /\ (outcome.cls \in {"success", "failure"} /\ ~outcome.sync) =>
        /\ outcome.invoked
        /\ \A r \in DOMAIN requests : requests[r].pc = "idle"

\* C29: when the cancellation token of an invocation has been cancelled
\* while its call was dispatched, the pending transport request is aborted
\* and the invocation ends: no call with a cancelled token is waiting on a
\* transport.
C29_CancelledCallIsAborted ==
    \A r \in DOMAIN requests :
        requests[r].cancelled => requests[r].pc # "call"

\* the server ids serverClients holds client cid under
SidsOf(cid) ==
    {serverClients[i].sid : i \in {j \in 1 .. Len(serverClients) : serverClients[j].cid = cid}}

\* C30: for a local-process (stdio) server, no two calls are waiting on the
\* same client at the same time.
C30_StdioCallsSerialized ==
    \A r1, r2 \in DOMAIN requests :
        (/\ r1 # r2
         /\ requests[r1].pc = "call"
         /\ requests[r2].pc = "call"
         /\ requests[r1].cid = requests[r2].cid)
        => ~ /\ heap[requests[r1].cid].bound.kind = "stdio"
             /\ \E i \in 1 .. Len(servers) :
                    /\ servers[i].id \in SidsOf(requests[r1].cid)
                    /\ servers[i].transport = "stdio"

\* C31: on a registry change the connection manager opens connections only
\* for descriptors that have no live connection and closes only those whose
\* descriptor has disappeared: the live connection of a descriptor that is
\* in the registry before and after the change is left as it is, under the
\* same key of the client map.
C31_LiveConnectionUntouched ==
    [][\A i \in 1 .. Len(serverClients) :
        LET e == serverClients[i]
        IN  (/\ servers' # servers
             /\ \E j \in 1 .. Len(servers) : \E k \in 1 .. Len(servers') :
                    servers[j].id = e.sid /\ servers'[k] = servers[j]
             /\ isConnected(heap[e.cid])
             /\ heap[e.cid].transport = "live")
            => /\ heap'[e.cid] = heap[e.cid]
               /\ getClient(serverClients', e.sid) = e.cid]_vars

\* C33: every tool of the catalog carries the participant id
\* 'adaptive-tools-participant.toolsAgent', whatever its server's descriptor
\* says (a descriptor without participantId included), so that a lookup
\* naming that id resolves the name of every tool of the catalog.
C33_CatalogToolsCarryParticipantId ==
    \A i \in 1 .. Len(discoveredTools) :
        /\ discoveredTools[i].participantId = PidFull
        /\ getToolByName(discoveredTools, discoveredTools[i].name, PidFull) # 0

\* C34: within one pass connect() is called at most once for each server of
\* the list the pass works on, and for no other server: a connect that
\* failed is not tried again by that pass, and the number of connect
\* attempts of a pass is bounded by the length of its list.
C34_ConnectAttemptedOncePerPass ==
    \A p \in PassIds :
        LET tried == passes[p].tried
        IN  /\ \A i, j \in 1 .. Len(tried) : tried[i] = tried[j] => i = j
            /\ \A i \in 1 .. Len(tried) : tried[i] \in IdsOf(passes[p].snap)
            /\ Len(tried) <= Len(passes[p].snap)

\* the first pass has ended, and the connect of a client it set has failed
C34_Witness ==
    /\ changes = 0
    /\ passes[1].pc = "done"
    /\ \E i \in 1 .. Len(serverClients) :
        /\ serverClients[i].sid \in {passes[1].tried[k] : k \in 1 .. Len(passes[1].tried)}
        /\ heap[serverClients[i].cid].transport = "closed"
        /\ ~isConnected(heap[serverClients[i].cid])

\* C35: removeServer(id) for an id no descriptor of the registry has leaves
\* the descriptor set and the persisted user layer as they are and fires no
\* change event (so that no discovery pass starts).
C35_RemoveAbsentIdChangesNothing ==
    [][\A id \in RemovableIds :
        (DiscoveryRemoveServer(id) /\ id \notin IdsOf(probe.loaded))
        => /\ probe'.loaded = probe.loaded
           /\ probe'.globalServers = probe.globalServers
           /\ probe'.configuredServers = probe.configuredServers
           /\ probe'.fired = 0]_vars

\* removeServer has run for an id that was absent, on a registry that holds
\* descriptors and whose user layer differs from it
C35_Witness ==
    /\ Constructed
    /\ probe.last = "removeServer"
    /\ probe.fired = 0
    /\ probe.removed \notin IdsOf(probe.loaded)
    /\ probe.loaded # <<>>
    /\ probe.globalServers # probe.loaded

\* C36: addServer and a removeServer that deletes write the whole in-memory
\* list to the user layer, so after a load that follows (the base layer
\* having changed or not) the registry holds for every id of the list that
\* was written the descriptor that list held for it.
C36_SavedListShadowsBaseLayer ==
    (Constructed /\ probe.last = "activate" /\ ~probe.fails) =>
        \A id \in IdsOf(probe.globalServers) :
            /\ findIndex(probe.loaded, id) # 0
            /\ probe.loaded[findIndex(probe.loaded, id)]
                = probe.globalServers[findIndex(probe.globalServers, id)]

\* C32: every pass that starts installs its result and then fires
\* onDidChangeTools once, also when disconnecting an old client fails during
\* the pass: a pass that has ended has fired, so that the change of the
\* catalog it made is followed by a notification.
C32_EndedPassHasFired ==
    \A p \in PassIds :
        passes[p].pc \in {"done", "caught"} => passes[p].pc = "done"

\* C38: once dispose() has completed and every pass that was in flight has
\* run to its end, no McpClient is connected, and the catalog and the client
\* map are empty.
C38_NothingLeftAfterDispose ==
    (/\ \E p \in PassIds : passes[p].pc = "disposed"
     /\ \A p \in PassIds : ~Running(passes[p]))
    => /\ discoveredTools = <<>>
       /\ serverClients = <<>>
       /\ \A cid \in ClientIds : ~isConnected(heap[cid])

\* the transports of the McpClient that have been made and not closed
OpenTransports ==
    {k \in 1 .. Len(probe.mcp.transports) : probe.mcp.transports[k] # "closed"}

\* C37: for one McpClient, under any interleaving of connect() and
\* disconnect() (two callers that both found it not connected included), at
\* most one transport is open at a time, and with no call in progress no
\* open transport is left that the client does not hold in this.transport.
C37_OneTransportNoneLeaked ==
    /\ Cardinality(OpenTransports) <= 1
    /\ (\A c \in CallerIds : probe.mcp.callers[c].pc = "idle")
        => \A k \in OpenTransports : probe.mcp.transport = k

\* C39: in every round of the tool-calling loop the tool-results message
\* pushed after the assistant message holds exactly one result part per
\* tool call of the round, in the order of the calls and under their
\* callIds, the part of a call whose invocation threw being the error text;
\* and the k-th sendRequest is in Required mode with the tool the k-th entry
\* of request.toolReferences names, for every entry, the requests after
\* those having the full list of proxy tools and no tool mode.
C39_OneResultPerCallOneRoundPerReference ==
    LET ch == probe.chat
    IN  probe.fn = "runWithTools" =>
        /\ \A n \in 1 .. Len(ch.messages) :
            IF ch.messages[n].role = "user"
            THEN /\ n > 1
                 /\ ch.messages[n - 1].role = "assistant"
                 /\ LET calls == ch.messages[n - 1].calls
                        results == ch.messages[n].results
                    IN  /\ Len(results) = Len(calls)
                        /\ \A j \in 1 .. Len(results) :
                            /\ results[j].callId = calls[j].callId
                            /\ results[j].content =
                                IF ch.messages[n].thrown[j]
                                THEN ErrorText(calls[j].name) ELSE ResultOk
            ELSE /\ ch.messages[n].calls # <<>>
                 /\ IF n < Len(ch.messages)
                    THEN ch.messages[n + 1].role = "user"
                    ELSE ch.pc = "invoke"
        /\ \A k \in 1 .. Len(ch.rounds) :
            IF k <= Len(ch.request)
            THEN /\ ch.rounds[k].toolMode = "Required"
                 /\ \A t \in {"t1", "t2", "t3"} :
                        (\E n \in 1 .. Len(ch.rounds[k].tools) : ch.rounds[k].tools[n] = t)
                        <=> (t = ch.request[k] /\ \E n \in 1 .. Len(LmTools) : LmTools[n].name = t)
            ELSE ch.rounds[k] = [toolMode |-> "", tools |-> proxyTools]

\* the loop has ended after a round for every tool reference and one with
\* the full list, and in a round of two calls an invocation threw
C39_Witness ==
    LET ch == probe.chat
    IN  /\ probe.fn = "runWithTools"
        /\ ch.pc = "end"
        /\ ch.request # <<>>
        /\ Len(ch.rounds) > Len(ch.request)
        /\ \E n \in 1 .. Len(ch.messages) :
            /\ ch.messages[n].role = "user"
            /\ Len(ch.messages[n].results) = 2
            /\ \E j \in 1 .. 2 : ch.messages[n].thrown[j]

====
